---- MODULE Spec2Model ----
(***************************************************************************)
(* Model of the salary pipeline of mercado_laboral_tech:                   *)
(*   - transform_job_data and its clean_salary helper (src/src/etl.py),    *)
(*   - the column resolvers, preprocess_data and train_salary_model        *)
(*     (src/src/model_salary.py),                                          *)
(*   - the prediction path of run_dashboard (src/dashboards/app.py).       *)
(*                                                                         *)
(* Representation.                                                         *)
(*   A text is a sequence of chunks whose concatenation is the text: one   *)
(*   character per chunk in salary and date texts, whole words and single  *)
(*   separator characters in free text.                                    *)
(*   A cell is a record [kind, num, str]: kind "null" is NaN/None, "num"   *)
(*   a float, "str" a Python str, "date" a parsed timestamp.  Floats are   *)
(*   kept exactly, in units of 1/2: num = 3 stands for 1.5.                *)
(*   A column name is a sequence of chunks whose concatenation is the      *)
(*   name: <<"titulo">>, <<"skill_", "python">>.                         *)
(*   A DataFrame is a sequence of columns [name, cells]; every column of   *)
(*   a frame has the same number of cells (its rows).                      *)
(***************************************************************************)
EXTENDS Integers, Sequences, FiniteSets, TLC

VARIABLES
    cs_pc, cs_arg, cs_ret,      \* clean_salary: position, argument, return value
    rs_pc, rs_df, rs_ret,       \* column resolvers: position, table, [fn, col]
    etl_pc, jobs_df, etl_df,    \* transform_job_data: position, argument, returned table
    csv,                        \* the file data/processed/jobs_processed.csv
    artifact,                   \* the file models/salary_model.joblib
    train_pc,                   \* how the last run of train_salary_model ended
    dash_pc,                    \* how far the dashboard run on these files got
    user_input,                 \* what its prediction form returned
    input_df,                   \* the table it handed to pipeline.predict
    rng,                        \* numpy's global generator: its streams, last seed, draws taken
    features,                   \* preprocess_data: its argument and the table it returned
    y_salary,                   \* y, the salaries train_salary_model handed to train_test_split
    dump_pc,                    \* joblib.dump on the artifact file: "idle" or "writing"
    view,                       \* the page the last run of the dashboard rendered
    ranking,                    \* the importance loop: its inputs and important_skills
    raw_file,                   \* the latest data/raw/ofertas_tech_reales_*.csv
    full_run                    \* train_pipeline: the training runs and performance_history.csv

cleanVars == <<cs_pc, cs_arg, cs_ret>>

resolveVars == <<rs_pc, rs_df, rs_ret>>

etlVars == <<etl_pc, jobs_df, etl_df>>

pipelineVars == <<csv, artifact, train_pc, dash_pc, user_input, input_df>>

lateVars == <<view, ranking, raw_file, full_run>>

stageVars == <<rng, features, y_salary, dump_pc, lateVars>>

vars == <<cleanVars, resolveVars, etlVars, pipelineVars, stageVars>>

-----------------------------------------------------------------------------
(* Bounds of the model.                                                    *)

\* columns and rows of the tables handed to preprocess_data
MaxFeatureCols == 2

MaxFeatureRows == 2

\* longest salary text handed to clean_salary
MaxLen == 4

\* columns and rows of the tables handed to the column resolvers
MaxResolverCols == 3

MaxResolverRows == 1

\* columns and rows of the raw tables handed to transform_job_data
MaxRawCols == 2

MaxRawRows == 1

\* columns besides the salary column, and distinct rows, of a processed file
MaxCsvCols == 2

MaxCsvRows == 1

\* how often a processed file repeats each of its rows, at most
MaxCopies == 7

-----------------------------------------------------------------------------
(* Cells.                                                                  *)

Null == [kind |-> "null", num |-> 0, str |-> <<>>]

NumCell(h) == [kind |-> "num", num |-> h, str |-> <<>>]

StrCell(s) == [kind |-> "str", num |-> 0, str |-> s]

IsNull(c) == c.kind = "null"

-----------------------------------------------------------------------------
(* Python str and float.                                                   *)

Digits == {"0", "1", "2", "3", "4", "5", "6", "7", "8", "9"}

DigitVal(c) ==
    CASE c = "0" -> 0
      [] c = "1" -> 1
      [] c = "2" -> 2
      [] c = "3" -> 3
      [] c = "4" -> 4
      [] c = "5" -> 5
      [] c = "6" -> 6
      [] c = "7" -> 7
      [] c = "8" -> 8
      [] c = "9" -> 9

Whitespace == {" "}

\* the characters clean_salary deletes: '$', ',' and the euro sign
CurrencyChars == {"$", ",", "EUR"}

SalaryChars == {"1", "2"} \cup Whitespace \cup {"-", "$", ",", "x"}

RECURSIVE LStrip(_)
LStrip(s) ==
    IF s # <<>> /\ Head(s) \in Whitespace THEN LStrip(Tail(s)) ELSE s

RECURSIVE RStrip(_)
RStrip(s) ==
    IF s # <<>> /\ s[Len(s)] \in Whitespace
    THEN RStrip(SubSeq(s, 1, Len(s) - 1))
    ELSE s

\* str.strip()
Strip(s) == RStrip(LStrip(s))

\* str.replace(c, '') for every c of chars
RemoveChars(s, chars) == SelectSeq(s, LAMBDA c : c \notin chars)

\* c in s
Contains(s, c) == \E i \in 1..Len(s) : s[i] = c

\* position of the first c of s, 0 when there is none
RECURSIVE FirstIndex(_, _, _)
FirstIndex(s, c, i) ==
    IF i > Len(s) THEN 0
    ELSE IF s[i] = c THEN i
    ELSE FirstIndex(s, c, i + 1)

\* str.split(c): the pieces between the occurrences of c, in order
RECURSIVE Split(_, _)
Split(s, c) ==
    LET i == FirstIndex(s, c, 1)
    IN  IF i = 0 THEN <<s>>
        ELSE <<SubSeq(s, 1, i - 1)>> \o Split(SubSeq(s, i + 1, Len(s)), c)

RECURSIVE DecimalValue(_)
DecimalValue(s) ==
    IF s = <<>> THEN 0
    ELSE 10 * DecimalValue(SubSeq(s, 1, Len(s) - 1)) + DigitVal(s[Len(s)])

AllDigits(s) == s # <<>> /\ \A i \in 1..Len(s) : s[i] \in Digits

\* float(s): surrounding whitespace is ignored, one leading sign is accepted;
\* ok = FALSE stands for ValueError.  val is in units of 1/2.
PyFloat(s) ==
    LET t == Strip(s)
        signed == t # <<>> /\ Head(t) = "-"
        body == IF signed THEN Tail(t) ELSE t
    IN  IF AllDigits(body)
        THEN [ok |-> TRUE,
              val |-> IF signed THEN 0 - 2 * DecimalValue(body)
                      ELSE 2 * DecimalValue(body)]
        ELSE [ok |-> FALSE, val |-> 0]

-----------------------------------------------------------------------------
(* transform_job_data.clean_salary                                         *)

clean_salary(salary_value) ==
    IF salary_value.kind # "str" THEN salary_value
    ELSE
        LET salary_text == Strip(RemoveChars(salary_value.str, CurrencyChars))
        IN  IF Contains(salary_text, "-")
            THEN LET parts == Split(salary_text, "-")
                     low == PyFloat(Strip(parts[1]))
                     high == PyFloat(Strip(parts[2]))
                 IN  IF low.ok /\ high.ok
                     THEN NumCell((low.val + high.val) \div 2)
                     ELSE Null
            ELSE LET single == PyFloat(salary_text)
                 IN  IF single.ok THEN NumCell(single.val) ELSE Null

-----------------------------------------------------------------------------
(* DataFrames.                                                             *)

\* None, as a column name
NoColumn == <<>>

\* col in df.columns
HasColumn(df, col) == \E i \in 1..Len(df) : df[i].name = col

\* df[col], for a label that names one column
Column(df, col) == df[CHOOSE i \in 1..Len(df) : df[i].name = col].cells

\* series.notna().any()
NotnaAny(cells) == \E r \in 1..Len(cells) : ~IsNull(cells[r])

\* the subsequences of `names` with at most k elements
RECURSIVE ColumnChoices(_, _)
ColumnChoices(names, k) ==
    IF names = <<>> \/ k = 0 THEN {<<>>}
    ELSE ColumnChoices(Tail(names), k)
         \cup {<<Head(names)>> \o rest : rest \in ColumnChoices(Tail(names), k - 1)}

\* the cell vectors of the columns `cols`: `rows` cells each, those of column n
\* drawn from Dom[n]
RECURSIVE CellChoices(_, _, _)
CellChoices(cols, rows, Dom) ==
    IF cols = <<>> THEN {<<>>}
    ELSE {<<c>> \o rest : c \in [1..rows -> Dom[Head(cols)]],
                          rest \in CellChoices(Tail(cols), rows, Dom)}

\* the table with the labels cols and the cell vectors cells
Frame(cols, cells) == [i \in 1..Len(cols) |-> [name |-> cols[i], cells |-> cells[i]]]

-----------------------------------------------------------------------------
(* Column resolvers of model_salary.py.                                    *)

SalaryCandidates == << <<"salario_promedio">>, <<"salary">>, <<"salario">> >>

LocationCandidates == << <<"ubicacion">>, <<"location">> >>

ContractCandidates == << <<"tipo_contrato">>, <<"jornada">>, <<"contract_type">> >>

TitleCandidates == << <<"titulo">>, <<"job_title">> >>

\* FirstUsable with the non-null test left out
RECURSIVE FirstUsable_Present(_, _)
FirstUsable_Present(df, candidates) ==
    IF candidates = <<>> THEN NoColumn
    ELSE IF HasColumn(df, Head(candidates)) THEN Head(candidates)
    ELSE FirstUsable_Present(df, Tail(candidates))

\* for col in candidates: if col in df.columns and df[col].notna().any(): return col
RECURSIVE FirstUsable(_, _)
FirstUsable(df, candidates) ==
    IF candidates = <<>> THEN NoColumn
    ELSE IF /\ HasColumn(df, Head(candidates))
            /\ NotnaAny(Column(df, Head(candidates)))
         THEN Head(candidates)
    ELSE FirstUsable(df, Tail(candidates))

determine_salary_column(df) == FirstUsable(df, SalaryCandidates)

determine_location_column(df) == FirstUsable(df, LocationCandidates)

determine_contract_column(df) == FirstUsable(df, ContractCandidates)

determine_title_column(df) == FirstUsable(df, TitleCandidates)

-----------------------------------------------------------------------------
(* transform_job_data of etl.py.                                           *)

DateCell(s) == [kind |-> "date", num |-> 0, str |-> s]

\* len(df)
NumRows(df) == IF df = <<>> THEN 0 ELSE Len(df[1].cells)

\* number of columns carrying the label col
CountLabel(df, col) == Cardinality({i \in 1..Len(df) : df[i].name = col})

\* df[col] = cells: replaces the column, or appends it when the label is new
SetColumn(df, col, cells) ==
    IF HasColumn(df, col)
    THEN [i \in 1..Len(df) |->
             IF df[i].name = col THEN [name |-> col, cells |-> cells] ELSE df[i]]
    ELSE Append(df, [name |-> col, cells |-> cells])

\* column_mapping, applied to one label (labels outside the mapping are kept)
column_mapping(n) ==
    CASE n = <<"title">> -> <<"puesto">>
      [] n = <<"titulo">> -> <<"puesto">>
      [] n = <<"company">> -> <<"empresa">>
      [] n = <<"location">> -> <<"ubicacion">>
      [] n = <<"description">> -> <<"descripcion">>
      [] n = <<"redirect_url">> -> <<"url_oferta">>
      [] n = <<"url">> -> <<"url_oferta">>
      [] OTHER -> n

\* df.rename(columns=column_mapping): every label is mapped, positions are kept
ApplyColumnMapping(df) ==
    [i \in 1..Len(df) |-> [name |-> column_mapping(df[i].name), cells |-> df[i].cells]]

\* df.rename(columns={old: new}): the label may then name two columns
RenameColumn(df, old, new) ==
    [i \in 1..Len(df) |->
        [name |-> IF df[i].name = old THEN new ELSE df[i].name, cells |-> df[i].cells]]

\* the labels a table can carry after the renaming, in the order sorted() gives
Alphabetical ==
    << <<"created_at">>, <<"descripcion">>, <<"empresa">>, <<"fecha_publicacion">>,
       <<"puesto">>, <<"salario">>, <<"salario_max">>, <<"salario_min">>,
       <<"salario_promedio">>, <<"salary">>, <<"technology">>, <<"tecnologias">>,
       <<"ubicacion">>, <<"url_oferta">> >>

SetMin(S) == CHOOSE x \in S : \A y \in S : x <= y

SetMax(S) == CHOOSE x \in S : \A y \in S : x >= y

\* simple overwrite: the value of the last column carrying the label, null or not
FirstNotNull_Overwrite(df, col, r) ==
    df[SetMax({i \in 1..Len(df) : df[i].name = col})].cells[r]

\* GroupBy.first() of one group at one row: the first non-null value among the
\* columns carrying the label, in their order; null when all are null
FirstNotNull(df, col, r) ==
    LET filled == {i \in 1..Len(df) : df[i].name = col /\ ~IsNull(df[i].cells[r])}
    IN  IF filled = {} THEN Null ELSE df[SetMin(filled)].cells[r]

\* df.T.groupby(level=0).first().T: one column per label, labels sorted
CollapseDuplicates(df) ==
    LET labels == SelectSeq(Alphabetical, LAMBDA n : HasColumn(df, n))
    IN  [k \in 1..Len(labels) |->
            [name |-> labels[k],
             cells |-> [r \in 1..NumRows(df) |-> FirstNotNull(df, labels[k], r)]]]

\* a text of the shape YYYY-MM-DD naming a day of the calendar
IsIsoDate(s) ==
    LET parts == Split(s, "-")
    IN  /\ Len(parts) = 3
        /\ Len(parts[1]) = 4 /\ Len(parts[2]) = 2 /\ Len(parts[3]) = 2
        /\ \A k \in 1..3 : AllDigits(parts[k])
        /\ DecimalValue(parts[2]) \in 1..12
        /\ DecimalValue(parts[3]) \in 1..28

\* pd.to_datetime(errors='coerce') of one cell; the texts drawn for date columns
\* are ISO dates and texts with no digit, other texts count as unparseable
ToDatetime(c) ==
    CASE c.kind = "str" -> IF IsIsoDate(Strip(c.str)) THEN DateCell(Strip(c.str)) ELSE Null
      [] c.kind = "date" -> c
      [] c.kind = "num" -> [kind |-> "date", num |-> c.num, str |-> <<>>]
      [] OTHER -> Null

\* pd.to_datetime(series, errors='coerce')
ToDatetimeSeries(cells) == [r \in 1..Len(cells) |-> ToDatetime(cells[r])]

\* lines 169-175 with the rows of an unparseable date dropped instead of nulled
ParseDates_DropUnparsed(df) ==
    IF ~HasColumn(df, <<"created_at">>) /\ ~HasColumn(df, <<"fecha_publicacion">>) THEN df
    ELSE LET col == IF HasColumn(df, <<"created_at">>) THEN <<"created_at">>
                    ELSE <<"fecha_publicacion">>
             kept == SelectSeq([r \in 1..Len(Column(df, col)) |-> r],
                               LAMBDA r : ~IsNull(ToDatetime(Column(df, col)[r])))
         IN  [i \in 1..Len(df) |->
                 [name |-> df[i].name,
                  cells |-> [k \in 1..Len(kept) |-> df[i].cells[kept[k]]]]]

\* lines 169-175
ParseDates(df) ==
    IF HasColumn(df, <<"created_at">>)
    THEN SetColumn(df, <<"created_at">>, ToDatetimeSeries(Column(df, <<"created_at">>)))
    ELSE IF HasColumn(df, <<"fecha_publicacion">>)
    THEN LET parsed == ToDatetimeSeries(Column(df, <<"fecha_publicacion">>))
         IN  SetColumn(SetColumn(df, <<"fecha_publicacion">>, parsed),
                       <<"created_at">>, parsed)
    ELSE df

\* pd.to_numeric(errors='coerce') of one cell
ToNumeric(c) ==
    CASE c.kind = "num" -> c
      [] c.kind = "str" -> LET f == PyFloat(c.str)
                           IN  IF f.ok THEN NumCell(f.val) ELSE Null
      [] OTHER -> Null

\* pd.to_numeric(series, errors='coerce')
ToNumericSeries(cells) == [r \in 1..Len(cells) |-> ToNumeric(cells[r])]

\* to_numeric that converts every column carrying the label instead of raising
ToNumericColumn_Every(df, col) ==
    [raised |-> FALSE,
     df |-> [i \in 1..Len(df) |->
                IF df[i].name = col
                THEN [name |-> col, cells |-> ToNumericSeries(df[i].cells)]
                ELSE df[i]]]

\* df[col] = pd.to_numeric(df[col], errors='coerce'): when the label names more
\* than one column df[col] is a DataFrame, and to_numeric raises TypeError
ToNumericColumn(df, col) ==
    IF CountLabel(df, col) > 1
    THEN [raised |-> TRUE, df |-> df]
    ELSE [raised |-> FALSE, df |-> SetColumn(df, col, ToNumericSeries(Column(df, col)))]

\* for col in ['salario', 'salary', 'salario_promedio']: if col in df.columns: break
RECURSIVE DetectSalaryColumn(_, _)
DetectSalaryColumn(df, candidates) ==
    IF candidates = <<>> THEN NoColumn
    ELSE IF HasColumn(df, Head(candidates)) THEN Head(candidates)
    ELSE DetectSalaryColumn(df, Tail(candidates))

EtlSalaryCandidates == << <<"salario">>, <<"salary">>, <<"salario_promedio">> >>

\* lines 201-213
UnifySalary(df) ==
    LET salary_col_name == DetectSalaryColumn(df, EtlSalaryCandidates)
    IN  IF salary_col_name = NoColumn THEN [raised |-> FALSE, df |-> df]
        ELSE LET values == Column(df, salary_col_name)
                 cleaned == SetColumn(df, salary_col_name,
                                [r \in 1..Len(values) |-> clean_salary(values[r])])
             IN  ToNumericColumn(RenameColumn(cleaned, salary_col_name, <<"salary">>),
                                 <<"salary">>)

\* np.random.randint(27000, 110001)
ImputeLow == 27000

ImputeHighExclusive == 110001

\* the draws of the model: both ends of the range
ImputedSalaries == {2 * ImputeLow, 2 * (ImputeHighExclusive - 1)}

\* mean(axis=1) of the two bounds of one row, nulls skipped
RowMean(a, b) ==
    IF IsNull(a) THEN b
    ELSE IF IsNull(b) THEN a
    ELSE NumCell((a.num + b.num) \div 2)

\* ImputeAndAverage with the mask of the rows that miss either bound
ImputeAndAverage_Either(df, random_salaries) ==
    IF ~(HasColumn(df, <<"salario_min">>) /\ HasColumn(df, <<"salario_max">>)) THEN df
    ELSE LET lo == ToNumericSeries(Column(df, <<"salario_min">>))
             hi == ToNumericSeries(Column(df, <<"salario_max">>))
             missing_salary_mask == [r \in 1..NumRows(df) |-> IsNull(lo[r]) \/ IsNull(hi[r])]
             Fill(cells) == [r \in 1..NumRows(df) |->
                                IF missing_salary_mask[r]
                                THEN NumCell(random_salaries[r]) ELSE cells[r]]
             filled == SetColumn(SetColumn(df, <<"salario_min">>, Fill(lo)),
                                 <<"salario_max">>, Fill(hi))
         IN  SetColumn(filled, <<"salario_promedio">>,
                       [r \in 1..NumRows(df) |-> RowMean(Fill(lo)[r], Fill(hi)[r])])

\* lines 215-237; random_salaries[r] is the draw for row r when it is imputed
ImputeAndAverage(df, random_salaries) ==
    IF ~(HasColumn(df, <<"salario_min">>) /\ HasColumn(df, <<"salario_max">>)) THEN df
    ELSE LET lo == ToNumericSeries(Column(df, <<"salario_min">>))
             hi == ToNumericSeries(Column(df, <<"salario_max">>))
             missing_salary_mask == [r \in 1..NumRows(df) |-> IsNull(lo[r]) /\ IsNull(hi[r])]
             Fill(cells) == [r \in 1..NumRows(df) |->
                                IF missing_salary_mask[r]
                                THEN NumCell(random_salaries[r]) ELSE cells[r]]
             filled == SetColumn(SetColumn(df, <<"salario_min">>, Fill(lo)),
                                 <<"salario_max">>, Fill(hi))
         IN  SetColumn(filled, <<"salario_promedio">>,
                       [r \in 1..NumRows(df) |-> RowMean(Fill(lo)[r], Fill(hi)[r])])

\* the guard of lines 240-248: the first non-null cell of 'technology' is a Python
\* list.  No table read from CSV holds a list, so the has_<tech> columns of that
\* branch are never built for the tables run_etl_pipeline passes.
TechnologyIsList(df) ==
    /\ HasColumn(df, <<"technology">>)
    /\ NotnaAny(Column(df, <<"technology">>))
    /\ LET cells == Column(df, <<"technology">>)
       IN  cells[SetMin({r \in 1..Len(cells) : ~IsNull(cells[r])})].kind = "list"

\* lines 147-237: raised = TRUE when the call ends in an exception
transform_job_data(df_in, random_salaries) ==
    LET unified == CollapseDuplicates(ApplyColumnMapping(df_in))
        salary == UnifySalary(ParseDates(unified))
    IN  IF salary.raised THEN [raised |-> TRUE, df |-> <<>>]
        ELSE [raised |-> FALSE, df |-> ImputeAndAverage(salary.df, random_salaries)]

-----------------------------------------------------------------------------
(* The files and the dashboard at rest.                                    *)

\* the form inputs of a run that shows no prediction form
NoInput ==
    [location_input |-> Null, contract_input |-> Null, selected_tech_sidebar |-> {}]

IdleDashboard == dash_pc = "idle" /\ user_input = NoInput /\ input_df = <<>>

IdlePipeline == csv = <<>> /\ artifact = <<>> /\ train_pc = "idle" /\ IdleDashboard

\* a generator no caller has seeded, no feature table, no training target, no
\* dump under way
\* no page rendered
NoPage ==
    [pc |-> "idle", model |-> "none", outcome |-> "none", sidebar |-> "none",
     selected_location |-> Null, selected_tech |-> Null, jobs |-> <<>>, filtered_df |-> <<>>]

\* the importance loop not run
NoRanking ==
    [pc |-> "idle", skill_columns |-> <<>>, feature_names_transformed |-> <<>>,
     importances |-> <<>>, important_skills |-> <<>>]

\* no raw file in data/raw
NoRawFile == [state |-> "none", df |-> <<>>, copies |-> 1]

\* train_model never called, no performance_history.csv
NoRun == [run |-> 0, phase |-> "idle", report |-> "none", written_in |-> 0, history |-> <<>>]

IdleLate ==
    /\ view = NoPage
    /\ ranking = NoRanking
    /\ raw_file = NoRawFile
    /\ full_run = NoRun

IdleStages ==
    /\ IdleLate
    /\ rng = [streams |-> <<>>, seed |-> 0, pos |-> 0]
    /\ features = [pc |-> "idle", data |-> <<>>, out |-> <<>>]
    /\ y_salary = <<>>
    /\ dump_pc = "idle"

-----------------------------------------------------------------------------
(* Specification SpecClean: clean_salary applied to one cell.              *)

RECURSIVE TextsUpTo(_)
TextsUpTo(n) ==
    IF n = 0 THEN {<<>>}
    ELSE LET shorter == TextsUpTo(n - 1)
         IN  shorter \cup {Append(s, c) : s \in {t \in shorter : Len(t) = n - 1},
                                          c \in SalaryChars}

SalaryArgs == {StrCell(s) : s \in TextsUpTo(MaxLen)} \cup {Null, NumCell(2), NumCell(3)}

IdleClean == cs_pc = "idle" /\ cs_arg = Null /\ cs_ret = Null

IdleResolve ==
    rs_pc = "idle" /\ rs_df = <<>> /\ rs_ret = [fn |-> "none", col |-> NoColumn]

IdleEtl == etl_pc = "idle" /\ jobs_df = <<>> /\ etl_df = <<>>

InitClean ==
    /\ cs_pc = "call"
    /\ cs_arg \in SalaryArgs
    /\ cs_ret = Null
    /\ IdleResolve
    /\ IdleEtl
    /\ IdlePipeline
    /\ IdleStages

CleanSalary ==
    /\ cs_pc = "call"
    /\ cs_ret' = clean_salary(cs_arg)
    /\ cs_pc' = "returned"
    /\ UNCHANGED <<cs_arg, resolveVars, etlVars, pipelineVars, stageVars>>

NextClean == CleanSalary

SpecClean == InitClean /\ [][NextClean]_vars

\* C7 (as claimed): clean_salary of a string returns (A+B)/2 for 'A - B' with
\* numeric A and B, the number for a bare numeric string (currency symbols and
\* thousands separators stripped), and null for every other string.
NumericText(t) == AllDigits(Strip(t))

RangeSplits(t) ==
    {i \in 1..Len(t) : /\ t[i] = "-"
                       /\ NumericText(SubSeq(t, 1, i - 1))
                       /\ NumericText(SubSeq(t, i + 1, Len(t)))}

ClaimedSalary(s) ==
    LET t == RemoveChars(s, CurrencyChars)
    IN  IF RangeSplits(t) # {}
        THEN LET i == CHOOSE j \in RangeSplits(t) : TRUE
             IN  NumCell(DecimalValue(Strip(SubSeq(t, 1, i - 1)))
                         + DecimalValue(Strip(SubSeq(t, i + 1, Len(t)))))
        ELSE IF NumericText(t) THEN NumCell(2 * DecimalValue(Strip(t)))
        ELSE Null

C7_CleanSalaryThreeWay ==
    (cs_pc = "returned" /\ cs_arg.kind = "str") => cs_ret = ClaimedSalary(cs_arg.str)

-----------------------------------------------------------------------------
(* Specification SpecResolve: one resolver applied to one table.           *)

ResolverNames == SalaryCandidates \o LocationCandidates \o ContractCandidates
                 \o TitleCandidates

ResolverCells == [n \in {ResolverNames[i] : i \in 1..Len(ResolverNames)} |->
                     {Null, StrCell(<<"x">>)}]

InitResolve ==
    /\ rs_pc = "call"
    /\ \E cols \in ColumnChoices(ResolverNames, MaxResolverCols) :
          \E cells \in CellChoices(cols, MaxResolverRows, ResolverCells) :
              rs_df = Frame(cols, cells)
    /\ rs_ret = [fn |-> "none", col |-> NoColumn]
    /\ IdleClean
    /\ IdleEtl
    /\ IdlePipeline
    /\ IdleStages

DetermineSalaryColumn ==
    /\ rs_pc = "call"
    /\ rs_ret' = [fn |-> "salary", col |-> determine_salary_column(rs_df)]
    /\ rs_pc' = "returned"
    /\ UNCHANGED <<rs_df, cleanVars, etlVars, pipelineVars, stageVars>>

DetermineLocationColumn ==
    /\ rs_pc = "call"
    /\ rs_ret' = [fn |-> "location", col |-> determine_location_column(rs_df)]
    /\ rs_pc' = "returned"
    /\ UNCHANGED <<rs_df, cleanVars, etlVars, pipelineVars, stageVars>>

DetermineContractColumn ==
    /\ rs_pc = "call"
    /\ rs_ret' = [fn |-> "contract", col |-> determine_contract_column(rs_df)]
    /\ rs_pc' = "returned"
    /\ UNCHANGED <<rs_df, cleanVars, etlVars, pipelineVars, stageVars>>

DetermineTitleColumn ==
    /\ rs_pc = "call"
    /\ rs_ret' = [fn |-> "title", col |-> determine_title_column(rs_df)]
    /\ rs_pc' = "returned"
    /\ UNCHANGED <<rs_df, cleanVars, etlVars, pipelineVars, stageVars>>

NextResolve ==
    \/ DetermineSalaryColumn
    \/ DetermineLocationColumn
    \/ DetermineContractColumn
    \/ DetermineTitleColumn

SpecResolve == InitResolve /\ [][NextResolve]_vars

PriorityList(fn) ==
    CASE fn = "salary" -> SalaryCandidates
      [] fn = "location" -> LocationCandidates
      [] fn = "contract" -> ContractCandidates
      [] fn = "title" -> TitleCandidates

Qualifies(df, col) == HasColumn(df, col) /\ NotnaAny(Column(df, col))

\* C6: each resolver returns the first name of its priority list that is a column
\* of the table with at least one non-null value, and null when none qualifies.
C6_ResolverFirstQualifying ==
    rs_pc = "returned" =>
        LET cands == PriorityList(rs_ret.fn)
            ok == {i \in 1..Len(cands) : Qualifies(rs_df, cands[i])}
        IN  IF ok = {} THEN rs_ret.col = NoColumn
            ELSE \E i \in ok : /\ \A j \in ok : i <= j
                               /\ rs_ret.col = cands[i]

\* C6 witness: salario_promedio is present and entirely null, salary is populated,
\* and the salary resolver returned 'salary'.
C6_Witness ==
    /\ rs_pc = "returned"
    /\ rs_ret.fn = "salary"
    /\ HasColumn(rs_df, <<"salario_promedio">>)
    /\ ~NotnaAny(Column(rs_df, <<"salario_promedio">>))
    /\ Qualifies(rs_df, <<"salary">>)
    /\ rs_ret.col = <<"salary">>

-----------------------------------------------------------------------------
(* Specification SpecTransform: transform_job_data applied to one raw table. *)

RawNames ==
    << <<"title">>, <<"titulo">>, <<"puesto">>, <<"salario">>, <<"salary">>,
       <<"salario_promedio">>, <<"salario_min">>, <<"salario_max">>,
       <<"created_at">>, <<"fecha_publicacion">> >>

\* the same labels with the three title columns in the opposite order
RawNamesTitlesReversed ==
    << <<"puesto">>, <<"titulo">>, <<"title">>, <<"salario">>, <<"salary">>,
       <<"salario_promedio">>, <<"salario_min">>, <<"salario_max">>,
       <<"created_at">>, <<"fecha_publicacion">> >>

TextCells == {Null, StrCell(<<"x">>), StrCell(<<"y">>)}

SalaryCells == {Null, NumCell(4), StrCell(<<"1", "-", "2">>), StrCell(<<"x">>)}

DateCells == {Null, StrCell(<<"2", "1", "2", "1", "-", "1", "2", "-", "1", "1">>),
              StrCell(<<"x">>)}

RawCells ==
    [n \in {RawNames[i] : i \in 1..Len(RawNames)} |->
        CASE n \in {<<"title">>, <<"titulo">>, <<"puesto">>} -> TextCells
          [] n \in {<<"salario">>, <<"salary">>, <<"salario_promedio">>} -> SalaryCells
          [] n = <<"salario_min">> -> {Null, NumCell(2), StrCell(<<"x">>)}
          [] n = <<"salario_max">> -> {Null, NumCell(4), StrCell(<<"x">>)}
          [] OTHER -> DateCells]

\* the labels of the raw tables: colliding columns come in either order
RawColumnChoices ==
    ColumnChoices(RawNames, MaxRawCols)
    \cup ColumnChoices(RawNamesTitlesReversed, MaxRawCols)

\* np.random.randint is reached only with both bound columns in the table
RandomDraws(df) ==
    IF HasColumn(df, <<"salario_min">>) /\ HasColumn(df, <<"salario_max">>)
    THEN [1..NumRows(df) -> ImputedSalaries]
    ELSE {[r \in 1..NumRows(df) |-> 2 * ImputeLow]}

InitTransform ==
    /\ etl_pc = "call"
    /\ \E cols \in RawColumnChoices :
          \E cells \in CellChoices(cols, MaxRawRows, RawCells) :
              jobs_df = Frame(cols, cells)
    /\ etl_df = <<>>
    /\ IdleClean
    /\ IdleResolve
    /\ IdlePipeline
    /\ IdleStages

TransformJobData ==
    /\ etl_pc = "call"
    /\ ~TechnologyIsList(jobs_df)
    /\ \E random_salaries \in RandomDraws(jobs_df) :
          LET res == transform_job_data(jobs_df, random_salaries)
          IN  /\ etl_pc' = IF res.raised THEN "raised" ELSE "returned"
              /\ etl_df' = res.df
    /\ UNCHANGED <<jobs_df, cleanVars, resolveVars, pipelineVars, stageVars>>

\* transform_job_data(transform_job_data(T)): the returned table is the
\* argument of a second call
TransformAgain ==
    /\ etl_pc = "returned"
    /\ ~TechnologyIsList(etl_df)
    /\ \E random_salaries \in RandomDraws(etl_df) :
          LET res == transform_job_data(etl_df, random_salaries)
          IN  /\ etl_pc' = IF res.raised THEN "raised_again" ELSE "returned_again"
              /\ jobs_df' = etl_df
              /\ etl_df' = res.df
    /\ UNCHANGED <<cleanVars, resolveVars, pipelineVars, stageVars>>

NextTransform == TransformJobData

SpecTransform == InitTransform /\ [][NextTransform]_vars

\* Specification SpecRerun: transform_job_data applied to a raw table and then to
\* its own result
SpecRerun == InitTransform /\ [][TransformJobData \/ TransformAgain]_vars

SalaryBearing == {<<"salary">>, <<"salario">>, <<"salario_promedio">>}

\* C8 (as claimed): in every returned table, every column a later stage can resolve
\* as the salary (salary, salario, salario_promedio) holds only numbers or null.
C8_SalaryColumnsNumeric ==
    etl_pc = "returned" =>
        \A i \in 1..Len(etl_df) :
            etl_df[i].name \in SalaryBearing =>
                \A r \in 1..Len(etl_df[i].cells) : etl_df[i].cells[r].kind \in {"num", "null"}

\* the raw columns that column_mapping sends to the label target
SourcesOf(df, target) == {i \in 1..Len(df) : column_mapping(df[i].name) = target}

MappingTargets ==
    {<<"puesto">>, <<"empresa">>, <<"ubicacion">>, <<"descripcion">>, <<"url_oferta">>}

\* C9: when two or more raw columns are renamed to one canonical name, the returned
\* table has one column of that name, and its value in each row is the first
\* non-null value among the colliding columns, in their order (null if all are null).
C9_FirstNonNullWins ==
    etl_pc = "returned" =>
        \A target \in MappingTargets :
            LET src == SourcesOf(jobs_df, target)
            IN  Cardinality(src) >= 2 =>
                    /\ CountLabel(etl_df, target) = 1
                    /\ \A r \in 1..NumRows(jobs_df) :
                          LET filled == {i \in src : ~IsNull(jobs_df[i].cells[r])}
                              merged == Column(etl_df, target)[r]
                          IN  IF filled = {} THEN IsNull(merged)
                              ELSE \E i \in filled : /\ \A j \in filled : i <= j
                                                     /\ merged = jobs_df[i].cells[r]

\* C9 witness: a returned table whose input had value X in the first of two colliding
\* columns and null in the second, at the same row; the merged cell is X.
C9_Witness ==
    /\ etl_pc = "returned"
    /\ \E i, j \in 1..Len(jobs_df) : \E r \in 1..NumRows(jobs_df) :
          /\ i < j
          /\ jobs_df[i].name = <<"title">> /\ jobs_df[j].name = <<"titulo">>
          /\ ~IsNull(jobs_df[i].cells[r]) /\ IsNull(jobs_df[j].cells[r])
          /\ Column(etl_df, <<"puesto">>)[r] = jobs_df[i].cells[r]

RaisedOnlyOnSalaryClash ==
    etl_pc \in {"returned", "raised"} =>
        (etl_pc = "raised" <=>
            HasColumn(jobs_df, <<"salario">>) /\ HasColumn(jobs_df, <<"salary">>))

-----------------------------------------------------------------------------
(* Free text of the processed table: titles, descriptions, locations and   *)
(* technology lists.  Its chunks are whole words and single separator      *)
(* characters, so "Dev Python" is <<"Dev", " ", "Python">>.                *)

\* the chunks that are no words: characters outside [a-zA-Z0-9_]
Separators == {" ", ",", "-", "+", "#", ".", "{", "}", ":", "'"}

\* str.lower(), per word
Lower(w) ==
    CASE w = "Dev" -> "dev"
      [] w = "Python" -> "python"
      [] w = "Senior" -> "senior"
      [] w = "Docker" -> "docker"
      [] w = "Madrid" -> "madrid"
      [] w = "Kingdom" -> "kingdom"
      [] w = "Spain" -> "spain"
      [] w = "Indefinido" -> "indefinido"
      [] w = "Temporal" -> "temporal"
      [] w = "Barcelona" -> "barcelona"
      [] w = "España" -> "españa"
      [] w = "Git" -> "git"
      [] w = "Desconocido" -> "desconocido"
      [] OTHER -> w

LowerText(t) == [i \in 1..Len(t) |-> Lower(t[i])]

\* series.str.lower(); a cell that is no text is left empty
LowerSeries(cells) ==
    [r \in 1..Len(cells) |->
        IF cells[r].kind = "str" THEN LowerText(cells[r].str) ELSE <<>>]

\* re.search(pattern, text, re.IGNORECASE) on a lower-cased text, for a pattern
\* that is an alternation of literals.  A word of the text matches a literal
\* when it is that literal: the texts of the model hold no word that merely
\* contains one.
Search(t, pattern) ==
    \/ \E i \in 1..Len(t) : t[i] \in pattern.words
    \/ \E lit \in pattern.phrases :
          \E i \in 1..(Len(t) - Len(lit) + 1) : SubSeq(t, i, i + Len(lit) - 1) = lit

\* series.str.contains(pattern, case=False, na=False).astype(int), on the
\* lower-cased texts of the series
StrContains(lowered, pattern) ==
    [r \in 1..Len(lowered) |->
        IF Search(lowered[r], pattern) THEN NumCell(2) ELSE NumCell(0)]

\* re.sub(r'[^a-zA-Z0-9_]', '', text)
RemoveNonAlnum(t) == SelectSeq(t, LAMBDA w : w \notin Separators)

\* the order of Python's str on the words of the model's texts
WordRank(w) ==
    CASE w = " " -> 0
      [] w = "," -> 1
      [] w = "Barcelona" -> 2
      [] w = "Dev" -> 3
      [] w = "Docker" -> 4
      [] w = "España" -> 5
      [] w = "Git" -> 6
      [] w = "Indefinido" -> 7
      [] w = "Kingdom" -> 8
      [] w = "Madrid" -> 9
      [] w = "Python" -> 10
      [] w = "Senior" -> 11
      [] w = "Spain" -> 12
      [] w = "Temporal" -> 13
      [] w = "docker" -> 14
      [] w = "of" -> 15
      [] w = "python" -> 16
      [] OTHER -> 17

\* a < b for two texts, as Python compares str
RECURSIVE TextLess(_, _)
TextLess(a, b) ==
    IF b = <<>> THEN FALSE
    ELSE IF a = <<>> THEN TRUE
    ELSE IF Head(a) = Head(b) THEN TextLess(Tail(a), Tail(b))
    ELSE WordRank(Head(a)) < WordRank(Head(b))

\* sorted(S) for a set of texts
RECURSIVE SortedTexts(_)
SortedTexts(S) ==
    IF S = {} THEN <<>>
    ELSE LET least == CHOOSE x \in S : \A y \in S \ {x} : TextLess(x, y)
         IN  <<least>> \o SortedTexts(S \ {least})

\* the elements of the sequence s
Range(s) == {s[i] : i \in 1..Len(s)}

\* list(dict.fromkeys(s)): the first occurrence of every element, in order
Dedup(s) ==
    LET first == SelectSeq([i \in 1..Len(s) |-> i],
                           LAMBDA i : \A j \in 1..(i - 1) : s[j] # s[i])
    IN  [k \in 1..Len(first) |-> s[first[k]]]

\* name.startswith(prefix), for a prefix that is the first chunk of a name
StartsWith(name, prefix) == name # <<>> /\ name[1] = prefix

-----------------------------------------------------------------------------
(* preprocess_data of model_salary.py.                                     *)
(*                                                                         *)
(* Each regular expression of the function is an alternation of literals.  *)
(* An entry of the tables below lists them: `words` holds the literals     *)
(* that are one word, `phrases` those made of several chunks.              *)

\* the nine columns derived from the title, in the order of their assignment
TitlePatterns ==
    <<
       [name |-> <<"seniority_", "senior">>,
        words |-> {"senior", "lead", "principal", "architect", "head",
                   "staff", "director"},
        phrases |-> {<<"sr", ".">>}],
       [name |-> <<"seniority_", "mid">>,
        words |-> {"mid", "middle", "ii", "2"},
        phrases |-> {}],
       [name |-> <<"seniority_", "junior">>,
        words |-> {"junior", "intern", "trainee", "graduate", "entry",
                   "associate"},
        phrases |-> {<<"jr", ".">>}],
       [name |-> <<"role_", "frontend">>,
        words |-> {"front", "frontend", "ui", "react", "angular", "vue"},
        phrases |-> {<<"front", "-", "end">>}],
       [name |-> <<"role_", "backend">>,
        words |-> {"back", "backend", "api", "node", "django", "flask",
                   "spring"},
        phrases |-> {<<"back", "-", "end">>}],
       [name |-> <<"role_", "fullstack">>,
        words |-> {"full", "fullstack"},
        phrases |-> {<<"full", "-", "stack">>, <<"full", " ", "stack">>}],
       [name |-> <<"role_", "data">>,
        words |-> {"data", "analytic", "bi", "analyst"},
        phrases |-> {<<"business", " ", "intelligence">>}],
       [name |-> <<"role_", "devops">>,
        words |-> {"devops", "sre", "reliability", "cloud", "aws", "azure",
                   "platform"},
        phrases |-> {}],
       [name |-> <<"role_", "manager">>,
        words |-> {"manager", "director", "head", "lead", "chief", "cto"},
        phrases |-> {}]
    >>

\* is_remote, has_flexibility, requires_degree
DescriptionFlagPatterns ==
    <<
       [name |-> <<"is_remote">>,
        words |-> {"remote", "remoto", "teletrabajo", "teletrabaja"},
        phrases |-> {<<"work", " ", "from", " ", "home">>}],
       [name |-> <<"has_flexibility">>,
        words |-> {"flexi"},
        phrases |-> {<<"horario", " ", "flexible">>, <<"flexible", " ", "hours">>}],
       [name |-> <<"requires_degree">>,
        words |-> {"degree", "título", "licenciatura", "grado", "ingeniería",
                   "ingenieria", "universidad"},
        phrases |-> {}]
    >>

\* tech_patterns, one tech_ column per entry
tech_patterns ==
    <<
       [name |-> <<"tech_", "python">>,
        words |-> {"python"},
        phrases |-> {}],
       [name |-> <<"tech_", "javascript">>,
        words |-> {"javascript", "js"},
        phrases |-> {}],
       [name |-> <<"tech_", "typescript">>,
        words |-> {"typescript", "ts"},
        phrases |-> {}],
       [name |-> <<"tech_", "java">>,
        words |-> {"java"},
        phrases |-> {}],
       [name |-> <<"tech_", "csharp">>,
        words |-> {"csharp"},
        phrases |-> {<<"c", "#">>, <<"c", "-", "sharp">>}],
       [name |-> <<"tech_", "cpp">>,
        words |-> {"cpp"},
        phrases |-> {<<"c", "+", "+">>}],
       [name |-> <<"tech_", "php">>,
        words |-> {"php"},
        phrases |-> {}],
       [name |-> <<"tech_", "go">>,
        words |-> {"go", "golang"},
        phrases |-> {}],
       [name |-> <<"tech_", "ruby">>,
        words |-> {"ruby"},
        phrases |-> {}],
       [name |-> <<"tech_", "swift">>,
        words |-> {"swift"},
        phrases |-> {}],
       [name |-> <<"tech_", "kotlin">>,
        words |-> {"kotlin"},
        phrases |-> {}],
       [name |-> <<"tech_", "rust">>,
        words |-> {"rust"},
        phrases |-> {}],
       [name |-> <<"tech_", "react">>,
        words |-> {"react"},
        phrases |-> {}],
       [name |-> <<"tech_", "angular">>,
        words |-> {"angular"},
        phrases |-> {}],
       [name |-> <<"tech_", "vue">>,
        words |-> {"vue"},
        phrases |-> {}],
       [name |-> <<"tech_", "node">>,
        words |-> {"nodejs"},
        phrases |-> {<<"node", ".", "js">>}],
       [name |-> <<"tech_", "django">>,
        words |-> {"django"},
        phrases |-> {}],
       [name |-> <<"tech_", "flask">>,
        words |-> {"flask"},
        phrases |-> {}],
       [name |-> <<"tech_", "spring">>,
        words |-> {"spring"},
        phrases |-> {}],
       [name |-> <<"tech_", "rails">>,
        words |-> {"rails"},
        phrases |-> {}],
       [name |-> <<"tech_", "laravel">>,
        words |-> {"laravel"},
        phrases |-> {}],
       [name |-> <<"tech_", "sql">>,
        words |-> {"sql"},
        phrases |-> {}],
       [name |-> <<"tech_", "mysql">>,
        words |-> {"mysql"},
        phrases |-> {}],
       [name |-> <<"tech_", "postgresql">>,
        words |-> {"postgres", "postgresql"},
        phrases |-> {}],
       [name |-> <<"tech_", "mongodb">>,
        words |-> {"mongo", "mongodb"},
        phrases |-> {}],
       [name |-> <<"tech_", "aws">>,
        words |-> {"aws"},
        phrases |-> {<<"amazon", " ", "web", " ", "services">>}],
       [name |-> <<"tech_", "azure">>,
        words |-> {"azure"},
        phrases |-> {}],
       [name |-> <<"tech_", "gcp">>,
        words |-> {"gcp"},
        phrases |-> {<<"google", " ", "cloud">>}],
       [name |-> <<"tech_", "docker">>,
        words |-> {"docker"},
        phrases |-> {}],
       [name |-> <<"tech_", "kubernetes">>,
        words |-> {"kubernetes", "k8s"},
        phrases |-> {}],
       [name |-> <<"tech_", "terraform">>,
        words |-> {"terraform"},
        phrases |-> {}],
       [name |-> <<"tech_", "git">>,
        words |-> {"git"},
        phrases |-> {}],
       [name |-> <<"tech_", "jira">>,
        words |-> {"jira"},
        phrases |-> {}],
       [name |-> <<"tech_", "scrum">>,
        words |-> {"scrum", "agile"},
        phrases |-> {}]
    >>

\* the seven loc_ columns
CityPatterns ==
    <<
       [name |-> <<"loc_", "madrid">>,
        words |-> {"madrid"},
        phrases |-> {}],
       [name |-> <<"loc_", "barcelona">>,
        words |-> {"barcelona"},
        phrases |-> {}],
       [name |-> <<"loc_", "valencia">>,
        words |-> {"valencia"},
        phrases |-> {}],
       [name |-> <<"loc_", "malaga">>,
        words |-> {"malaga"},
        phrases |-> {}],
       [name |-> <<"loc_", "sevilla">>,
        words |-> {"sevilla"},
        phrases |-> {}],
       [name |-> <<"loc_", "bilbao">>,
        words |-> {"bilbao"},
        phrases |-> {}],
       [name |-> <<"loc_", "zaragoza">>,
        words |-> {"zaragoza"},
        phrases |-> {}]
    >>

\* is_capital, is_remote_location, is_international
LocationFlagPatterns ==
    <<
       [name |-> <<"is_capital">>,
        words |-> {"madrid"},
        phrases |-> {}],
       [name |-> <<"is_remote_location">>,
        words |-> {"remote", "remoto", "teletrabajo"},
        phrases |-> {<<"trabajo", " ", "a", " ", "distancia">>}],
       [name |-> <<"is_international">>,
        words |-> {"internacional", "international", "europe", "global"},
        phrases |-> {}]
    >>

\* data[entry] = data[col].str.contains(...).astype(int), for every entry of
\* the table `patterns` in turn; lowered is data[col], lower-cased.  Each
\* assignment replaces the column of that label or, when the label is new,
\* appends it.
AssignPatterns(df, lowered, patterns) ==
    LET assigned == [k \in 1..Len(patterns) |->
                        [name |-> patterns[k].name,
                         cells |-> StrContains(lowered, patterns[k])]]
    IN  IF \E k \in 1..Len(patterns) : HasColumn(df, patterns[k].name)
        THEN [i \in 1..Len(df) |->
                 IF \E k \in 1..Len(patterns) : patterns[k].name = df[i].name
                 THEN assigned[CHOOSE k \in 1..Len(patterns) :
                                   patterns[k].name = df[i].name]
                 ELSE df[i]]
             \o SelectSeq(assigned, LAMBDA col : ~HasColumn(df, col.name))
        ELSE df \o assigned

\* int(w) for the number words of the descriptions, -1 for any other word
WordValue(w) ==
    CASE w = "1" -> 1
      [] w = "3" -> 3
      [] w = "5" -> 5
      [] OTHER -> -1

\* exp_pattern matches t with its group on word i, its unit on word j and
\* "experienc[ei]a" on word k
ExpPatternAt(t, i, j, k) ==
    /\ i < j /\ j < k /\ k <= Len(t)
    /\ WordValue(t[i]) >= 0
    /\ \A m \in (i + 1)..(j - 1) : t[m] \in {" ", "-"}
    /\ t[j] \in {"años", "anos", "año", "ano", "years", "year", "+"}
    /\ \A m \in (j + 1)..(k - 1) : t[m] = " " \/ t[m] \notin Separators
    /\ t[k] \in {"experiencia", "experiencea"}

\* pd.to_numeric(series.str.extract(exp_pattern, flags=re.IGNORECASE)), one cell
ExtractYears(c) ==
    IF c.kind # "str" THEN Null
    ELSE LET t == LowerText(c.str)
             starts == {i \in 1..Len(t) :
                           \E j \in 1..Len(t), k \in 1..Len(t) : ExpPatternAt(t, i, j, k)}
         IN  IF starts = {} THEN Null ELSE NumCell(2 * WordValue(t[SetMin(starts)]))

\* series.median() over the non-null cells, in halves
Median(cells) ==
    LET present == SelectSeq(cells, LAMBDA c : ~IsNull(c))
        n == Len(present)
        Kth(k) == CHOOSE v \in {present[i].num : i \in 1..n} :
                      /\ Cardinality({i \in 1..n : present[i].num < v}) < k
                      /\ Cardinality({i \in 1..n : present[i].num <= v}) >= k
    IN  IF n % 2 = 1 THEN Kth((n + 1) \div 2)
        ELSE (Kth(n \div 2) + Kth((n \div 2) + 1)) \div 2

\* years of experience written when no description states any
DefaultYearsExp == 2

\* RequiredYearsExp with fillna(2) in place of fillna(median)
RequiredYearsExp_FillDefault(cells) ==
    LET extracted == [r \in 1..Len(cells) |-> ExtractYears(cells[r])]
    IN  [r \in 1..Len(cells) |->
            IF IsNull(extracted[r]) THEN NumCell(2 * DefaultYearsExp) ELSE extracted[r]]

\* the column required_years_exp
RequiredYearsExp(cells) ==
    LET extracted == [r \in 1..Len(cells) |-> ExtractYears(cells[r])]
    IN  IF \A r \in 1..Len(cells) : IsNull(extracted[r])
        THEN [r \in 1..Len(cells) |-> NumCell(2 * DefaultYearsExp)]
        ELSE [r \in 1..Len(cells) |->
                 IF IsNull(extracted[r]) THEN NumCell(Median(extracted))
                 ELSE extracted[r]]

\* the tokens of one cell of fillna('').str.get_dummies(sep=',')
Tokens(c) ==
    IF c.kind = "str" THEN Range(Split(c.str, ",")) \ {<<>>} ELSE {}

\* tech_dummies.columns: every token of the column, sorted
DummyColumns(cells) == SortedTexts(UNION {Tokens(cells[r]) : r \in 1..Len(cells)})

\* f"skill_{re.sub(r'[^a-zA-Z0-9_]', '', text.lower())}"
SkillName(text) == <<"skill_">> \o RemoveNonAlnum(LowerText(text))

\* the loop that fills cleaned_cols, over the dummy columns `tokens`
RECURSIVE CleanedCols(_, _, _)
CleanedCols(tokens, cells, cleaned_cols) ==
    IF tokens = <<>> THEN cleaned_cols
    ELSE LET col == Head(tokens)
             col_stripped == Strip(col)
             cleaned_name == SkillName(col_stripped)
             dummy == [r \in 1..Len(cells) |->
                          IF col \in Tokens(cells[r]) THEN NumCell(2) ELSE NumCell(0)]
         IN  IF col_stripped = <<>> THEN CleanedCols(Tail(tokens), cells, cleaned_cols)
             ELSE IF HasColumn(cleaned_cols, cleaned_name)
             THEN CleanedCols(Tail(tokens), cells,
                      SetColumn(cleaned_cols, cleaned_name,
                          [r \in 1..Len(cells) |->
                              NumCell(Column(cleaned_cols, cleaned_name)[r].num
                                      + dummy[r].num)]))
             ELSE CleanedCols(Tail(tokens), cells,
                      SetColumn(cleaned_cols, cleaned_name, dummy))

\* step 1: seniority_ and role_ columns, when a title column resolves
TitleFeatures(data, title_col) ==
    IF title_col = NoColumn THEN data
    ELSE AssignPatterns(data, LowerSeries(Column(data, title_col)), TitlePatterns)

\* step 2 and the tech_ loop of step 3, when a description column resolves
DescriptionFeatures(data, desc_col) ==
    IF desc_col = NoColumn THEN data
    ELSE AssignPatterns(
             SetColumn(data, <<"required_years_exp">>,
                       RequiredYearsExp(Column(data, desc_col))),
             LowerSeries(Column(data, desc_col)),
             DescriptionFlagPatterns \o tech_patterns)

\* the skill_ columns of step 3, when the table has a column tecnologias
SkillFeatures(data) ==
    IF ~HasColumn(data, <<"tecnologias">>) THEN data
    ELSE LET cells == Column(data, <<"tecnologias">>)
         IN  data \o CleanedCols(DummyColumns(cells), cells, <<>>)

\* step 4: loc_ columns and location flags, when a location column resolves
LocationFeatures(data) ==
    LET location_col == determine_location_column(data)
    IN  IF location_col = NoColumn THEN data
        ELSE AssignPatterns(data, LowerSeries(Column(data, location_col)),
                            CityPatterns \o LocationFlagPatterns)

preprocess_data(data) ==
    LET title_col == determine_title_column(data)
        desc_col == FirstUsable(data, << <<"descripcion">>, <<"description">>,
                                         <<"requisitos">>, <<"requirements">> >>)
    IN  LocationFeatures(
            SkillFeatures(
                DescriptionFeatures(TitleFeatures(data, title_col), desc_col)))

-----------------------------------------------------------------------------
(* train_salary_model of model_salary.py.                                  *)
(*                                                                         *)
(* The file jobs_processed.csv is <<>> when absent and <<[df, copies]>>    *)
(* otherwise: the table it holds is df with every row written `copies`     *)
(* times.  Every step of the trainer and of the dashboard treats equal     *)
(* rows alike, so only the number of rows depends on copies.  The file     *)
(* salary_model.joblib is <<>> when absent and <<metadata>> otherwise.     *)

\* the labels of df.columns that start with prefix, in column order
ColumnsStartingWith(df, prefix) ==
    LET labels == [i \in 1..Len(df) |-> df[i].name]
    IN  SelectSeq(labels, LAMBDA n : StartsWith(n, prefix))

\* [f for f in names if f in df.columns]
PresentIn(names, df) == SelectSeq(names, LAMBDA n : HasColumn(df, n))

\* df.dropna(subset=[col])
DropNa(df, col) ==
    LET kept == SelectSeq([r \in 1..NumRows(df) |-> r],
                          LAMBDA r : ~IsNull(Column(df, col)[r]))
    IN  [i \in 1..Len(df) |->
            [name |-> df[i].name,
             cells |-> [k \in 1..Len(kept) |-> df[i].cells[kept[k]]]]]

\* test_size=0.2: one row in TestFraction goes to the test set, rounded up
TestFraction == 5

n_splits == 5

\* rows train_test_split leaves for training out of n
TrainRows(n) == n - ((n + TestFraction - 1) \div TestFraction)

\* categorical_features of line 271
CategoricalFeatures(title_col, location_col, contract_col) ==
    SelectSeq(<<title_col, location_col, contract_col>>, LAMBDA c : c # NoColumn)

\* numerical_features of line 272, the one feature_cols is built from
SelectedNumericalFeatures(df) ==
    LET labels == [i \in 1..Len(df) |-> df[i].name]
    IN  SelectSeq(labels, LAMBDA n : StartsWith(n, "skill_") \/ StartsWith(n, "seniority_"))

\* numerical_features as rebuilt in lines 303-322, the one the artifact stores
RebuiltNumericalFeatures(df) ==
    ColumnsStartingWith(df, "skill_") \o ColumnsStartingWith(df, "seniority_")
    \o ColumnsStartingWith(df, "role_") \o ColumnsStartingWith(df, "tech_")
    \o PresentIn(<< <<"required_years_exp">> >>, df)
    \o PresentIn(<< <<"is_remote">>, <<"has_flexibility">>, <<"requires_degree">>,
                    <<"is_remote_location">>, <<"is_capital">>,
                    <<"is_international">> >>, df)
    \o PresentIn(ColumnsStartingWith(df, "loc_"), df)

\* the dictionary written to salary_model.joblib (lines 462-482); its lists
\* are those of lines 271, 280, 303-322 and 429-430
Metadata(df, feature_cols, categorical_features, numerical_features, title_col, location_col, contract_col) ==
    [pipeline |->
        [num |-> SelectSeq(numerical_features, LAMBDA n : n \in Range(feature_cols)),
         cat |-> SelectSeq(categorical_features, LAMBDA n : n \in Range(feature_cols)),
         columns |-> feature_cols],
     feature_cols |-> feature_cols,
     categorical_features |-> categorical_features,
     numerical_features |-> numerical_features,
     skill_columns |-> ColumnsStartingWith(df, "skill_"),
     tech_columns |-> ColumnsStartingWith(df, "tech_"),
     important_skills |-> <<>>,
     location_col |-> location_col,
     contract_col |-> contract_col,
     title_col |-> title_col]

\* lines 271-485: feature selection, split, search and save, on the rows that
\* have a salary.  train_test_split raises when it leaves no training row and
\* the search raises when KFold gets fewer rows than splits.
FitAndSave(df, copies, categorical_features, title_col, location_col, contract_col) ==
    IF categorical_features \o SelectedNumericalFeatures(df) = <<>>
    THEN [outcome |-> "no_features", metadata |-> <<>>]
    ELSE IF \E c \in Range(categorical_features) : ~HasColumn(df, c)
    THEN [outcome |-> "missing_columns", metadata |-> <<>>]
    ELSE IF TrainRows(NumRows(df) * copies) = 0
            \/ TrainRows(NumRows(df) * copies) < n_splits
    THEN [outcome |-> "raised", metadata |-> <<>>]
    ELSE [outcome |-> "saved",
          metadata |-> <<Metadata(df,
                                  Dedup(categorical_features
                                        \o SelectedNumericalFeatures(df)),
                                  categorical_features,
                                  RebuiltNumericalFeatures(df),
                                  title_col, location_col, contract_col)>>]

\* WithSalary without the dropna of line 262
WithSalary_KeepAll(data, salary_col) ==
    SetColumn(data, salary_col, ToNumericSeries(Column(data, salary_col)))

\* lines 258-269: the salary column made numeric, rows without a salary dropped
WithSalary(data, salary_col) ==
    DropNa(SetColumn(data, salary_col, ToNumericSeries(Column(data, salary_col))),
           salary_col)

\* lines 249-269, on the table preprocess_data returned
SelectAndFit(data, copies, salary_col, title_col, location_col, contract_col) ==
    IF salary_col = NoColumn
    THEN [outcome |-> "no_salary_column", metadata |-> <<>>]
    ELSE IF NumRows(WithSalary(data, salary_col)) = 0
    THEN [outcome |-> "no_salary_rows", metadata |-> <<>>]
    ELSE FitAndSave(WithSalary(data, salary_col), copies,
                    CategoricalFeatures(title_col, location_col, contract_col),
                    title_col, location_col, contract_col)

\* the resolvers of lines 250-253 applied to the preprocessed table
ResolveAndFit(data, copies) ==
    SelectAndFit(data, copies, determine_salary_column(data),
                 determine_title_column(data), determine_location_column(data),
                 determine_contract_column(data))

\* train_salary_model: how the run ends and the metadata it writes, if any
train_salary_model(file) ==
    IF file = <<>> THEN [outcome |-> "file_not_found", metadata |-> <<>>]
    ELSE ResolveAndFit(preprocess_data(file[1].df), file[1].copies)

\* y = df[salary_col] of line 288, the target handed to train_test_split (X holds
\* the same rows); <<>> when the run returns before it gets there
TrainingTarget(file) ==
    IF train_salary_model(file).outcome \notin {"raised", "saved"} THEN <<>>
    ELSE LET data == preprocess_data(file[1].df)
             salary_col == determine_salary_column(data)
         IN  Column(WithSalary(data, salary_col), salary_col)

\* train_model of train_pipeline.py: what the caller of train_salary_model reports
\* for a run that ended in `outcome`; only an exception reaches the except clause
train_model(outcome) == IF outcome = "raised" THEN "error" ELSE "success"

-----------------------------------------------------------------------------
(* run_dashboard of dashboards/app.py, up to the call of pipeline.predict. *)

\* clean_location: a text "{'display_name': '<name>'}" gives <name>; any other
\* text starting with "{" is no dict with that key, or no literal, and is kept
clean_location(location) ==
    LET opening == <<"{", "'", "display_name", "'", ":", " ", "'">>
        closing == <<"'", "}">>
        t == location.str
        n == Len(t)
    IN  IF /\ location.kind = "str"
           /\ n >= Len(opening) + Len(closing)
           /\ SubSeq(t, 1, Len(opening)) = opening
           /\ SubSeq(t, n - 1, n) = closing
           /\ \A i \in (Len(opening) + 1)..(n - 2) : t[i] # "'"
        THEN StrCell(SubSeq(t, Len(opening) + 1, n - 2))
        ELSE location

\* series.replace('Kingdom of Spain', 'Spain'), one cell
ReplaceKingdom(c) ==
    IF c = StrCell(<<"Kingdom", " ", "of", " ", "Spain">>) THEN StrCell(<<"Spain">>)
    ELSE c

\* the resolvers run_dashboard binds for location and contract (the later
\* definitions of lines 162-178): the first candidate label that is present
RECURSIVE FirstPresent(_, _)
FirstPresent(df, candidates) ==
    IF candidates = <<>> THEN NoColumn
    ELSE IF HasColumn(df, Head(candidates)) THEN Head(candidates)
    ELSE FirstPresent(df, Tail(candidates))

real_data_cols ==
    << <<"puesto">>, <<"empresa">>, <<"ubicacion">>, <<"salario_promedio">>,
       <<"url_oferta">> >>

is_real_data(df) ==
    \/ HasColumn(df, <<"source_api">>) /\ NotnaAny(Column(df, <<"source_api">>))
    \/ /\ \A c \in Range(real_data_cols) : HasColumn(df, c)
       /\ \E c \in Range(real_data_cols) : NotnaAny(Column(df, c))

critical_cols == << <<"puesto">>, <<"empresa">>, <<"ubicacion">> >>

\* df.dropna(subset=cols) for a list of labels
RECURSIVE DropNaAll(_, _)
DropNaAll(df, cols) ==
    IF cols = <<>> THEN df ELSE DropNaAll(DropNa(df, Head(cols)), Tail(cols))

\* lines 269-271: the location column cleaned
CleanLocations(raw, location_col) ==
    IF location_col = NoColumn THEN raw
    ELSE SetColumn(raw, location_col,
             [r \in 1..NumRows(raw) |->
                 ReplaceKingdom(clean_location(Column(raw, location_col)[r]))])

\* lines 274-276: only the rows with a numeric salary are kept
KeepValued(df, salary_col) ==
    IF salary_col = NoColumn THEN df
    ELSE DropNa(SetColumn(df, salary_col, ToNumericSeries(Column(df, salary_col))),
                salary_col)

\* line 315: int(mean) of the salaries raises when no row is left
CheckRows(jobs, salary_col) ==
    IF salary_col # NoColumn /\ NumRows(jobs) = 0
    THEN [raised |-> TRUE, df |-> <<>>]
    ELSE [raised |-> FALSE, df |-> jobs]

\* lines 283-286: dropna on the critical columns of real data raises KeyError
\* when one of them is no column
KeepReal(valued, salary_col) ==
    IF ~is_real_data(valued) THEN CheckRows(valued, salary_col)
    ELSE IF \E c \in Range(critical_cols) : ~HasColumn(valued, c)
    THEN [raised |-> TRUE, df |-> <<>>]
    ELSE CheckRows(DropNaAll(valued, critical_cols), salary_col)

\* jobs_df as the prediction form finds it
LoadedJobs(file) ==
    KeepReal(KeepValued(CleanLocations(file[1].df, FirstPresent(file[1].df, LocationCandidates)),
                        determine_salary_column(file[1].df)),
             determine_salary_column(file[1].df))

\* get_important_skill_features.  The fitted model is a
\* HistGradientBoostingRegressor, which has no feature_importances_.
get_important_skill_features(metadata) ==
    IF metadata.important_skills # <<>> THEN metadata.important_skills
    ELSE IF metadata.skill_columns # <<>> THEN metadata.skill_columns
    ELSE IF metadata.tech_columns # <<>> THEN metadata.tech_columns
    ELSE SelectSeq(metadata.numerical_features,
                   LAMBDA n : StartsWith(n, "skill_") \/ StartsWith(n, "tech_"))

\* re.sub(r'[^a-zA-Z0-9_]', '', f"skill_{tech}"): the name without lower()
DashSkillName_KeepCase(tech) == RemoveNonAlnum(<<"skill_">> \o tech)

\* re.sub(r'[^a-zA-Z0-9_]', '', f"skill_{tech.lower()}")
DashSkillName(tech) == RemoveNonAlnum(<<"skill_">> \o LowerText(tech))

\* all_techs_pred, as a set
AllTechsPred(cells) ==
    {Strip(t) : t \in UNION {Tokens(cells[r]) : r \in 1..Len(cells)}} \ {<<>>}

\* tech_options_sidebar, as a set
TechOptionsSidebar(jobs, metadata) ==
    {tech \in AllTechsPred(Column(jobs, <<"tecnologias">>)) :
        DashSkillName(tech) \in Range(get_important_skill_features(metadata))}

\* what st.selectbox can return for the column col of the form: one of the
\* non-null values of the column; None when there is none or no such column
SelectboxValues(jobs, col) ==
    IF col # NoColumn /\ HasColumn(jobs, col) /\ NotnaAny(Column(jobs, col))
    THEN {c \in Range(Column(jobs, col)) : ~IsNull(c)}
    ELSE {Null}


\* series.mode(): the most frequent non-null values, as a set
Modes(cells) ==
    LET values == {c \in Range(cells) : ~IsNull(c)}
        Occurrences(v) == Cardinality({r \in 1..Len(cells) : cells[r] = v})
    IN  {c \in values : \A d \in values : Occurrences(d) <= Occurrences(c)}

\* series.mode()[0]: the least of the most frequent values
FirstMode(cells) ==
    CHOOSE c \in Modes(cells) : \A d \in Modes(cells) \ {c} : TextLess(c.str, d.str)

Desconocido == StrCell(<<"Desconocido">>)

\* the columns the builder zero-fills besides the skill_ columns
ZeroFilled ==
    { <<"experience_years">>, <<"seniority_", "senior">>, <<"seniority_", "junior">> }

\* the default of one column: lines 452-457.  mode()[0] raises IndexError on a
\* column without any non-null value
DefaultRaises(jobs, col) ==
    /\ ~(StartsWith(col, "skill_") \/ col \in ZeroFilled)
    /\ HasColumn(jobs, col) /\ NumRows(jobs) > 0
    /\ ~NotnaAny(Column(jobs, col))

DefaultValue(jobs, col) ==
    IF StartsWith(col, "skill_") \/ col \in ZeroFilled THEN NumCell(0)
    ELSE IF HasColumn(jobs, col) /\ NumRows(jobs) > 0 THEN FirstMode(Column(jobs, col))
    ELSE Desconocido

\* next((c for c in feature_cols if c in names), None)
FirstIn(feature_cols, names) ==
    LET hits == SelectSeq(feature_cols, LAMBDA c : c \in names)
    IN  IF hits = <<>> THEN NoColumn ELSE hits[1]

\* bool(value) of a form input
Truthy(c) == ~IsNull(c) /\ ~(c.kind = "str" /\ c.str = <<>>) /\ ~(c.kind = "num" /\ c.num = 0)

\* input_data after steps 1 to 3, as the list of its items in insertion order
InputData(jobs, feature_cols, location_input, contract_input, selected_tech_sidebar) ==
    LET keys == Dedup(feature_cols)
        loc_col_name == FirstIn(feature_cols, {<<"ubicacion">>, <<"location">>})
        contract_col_name ==
            FirstIn(feature_cols,
                    {<<"tipo_contrato">>, <<"jornada">>, <<"contract_type">>})
        chosen == {DashSkillName(tech) : tech \in selected_tech_sidebar}
    IN  [i \in 1..Len(keys) |->
            [name |-> keys[i],
             cells |-> << IF keys[i] \in chosen
                          THEN NumCell(2)
                          ELSE IF keys[i] = contract_col_name /\ Truthy(contract_input)
                          THEN contract_input
                          ELSE IF keys[i] = loc_col_name /\ Truthy(location_input)
                          THEN location_input
                          ELSE DefaultValue(jobs, keys[i]) >>]]

\* SelectColumns with the labels taken from the end of the list
SelectColumns_Reversed(df, labels) ==
    [i \in 1..Len(labels) |->
        [name |-> labels[Len(labels) + 1 - i],
         cells |-> Column(df, labels[Len(labels) + 1 - i])]]

\* df[labels]
SelectColumns(df, labels) ==
    [i \in 1..Len(labels) |->
        [name |-> labels[i], cells |-> Column(df, labels[i])]]

\* pipeline.predict(input_df) raises when the scaler gets a text
PredictRaises(pipeline, row) ==
    \E n \in Range(pipeline.num) : Column(row, n)[1].kind # "num"

-----------------------------------------------------------------------------
(* generate_spain_data.py: rewrites jobs_processed.csv with simulated      *)
(* offers.  Its n_jobs random rows are of two kinds here, a junior and a   *)
(* senior offer, each written n_jobs / 2 times; the city of the senior     *)
(* offers is one of two of the script's cities.                            *)

n_jobs == 800

GeneratedFrame(city) ==
    << [name |-> <<"puesto">>,
        cells |-> << StrCell(<<"Junior", " ", "Data", " ", "Scientist">>),
                     StrCell(<<"Senior", " ", "Data", " ", "Scientist">>) >>],
       [name |-> <<"salario_promedio">>,
        cells |-> << NumCell(2 * 18000), NumCell(2 * 38000) >>],
       [name |-> <<"ubicacion">>,
        cells |-> << StrCell(<<"Madrid", ",", " ", "España">>),
                     StrCell(city \o <<",", " ", "España">>) >>],
       [name |-> <<"tecnologias">>,
        cells |-> << StrCell(<<"Python", ",", " ", "Docker", ",", " ", "Git">>),
                     StrCell(<<"Docker", ",", " ", "Git", ",", " ", "Python">>) >>],
       [name |-> <<"empresa">>,
        cells |-> << StrCell(<<"Startup", " ", "1">>), StrCell(<<"Banco", " ", "2">>) >>],
       [name |-> <<"tipo_contrato">>,
        cells |-> << StrCell(<<"Indefinido">>), StrCell(<<"Temporal">>) >>],
       [name |-> <<"modalidad">>,
        cells |-> << StrCell(<<"Remoto">>), StrCell(<<"Presencial">>) >>],
       [name |-> <<"fuente">>,
        cells |-> << StrCell(<<"Datos", " ", "Simulados", " ", "España">>),
                     StrCell(<<"Datos", " ", "Simulados", " ", "España">>) >>],
       [name |-> <<"fecha_publicacion">>,
        cells |-> << StrCell(<<"2", "1", "2", "1", "-", "1", "2", "-", "1", "1">>),
                     StrCell(<<"2", "1", "2", "1", "-", "1", "2", "-", "1", "1">>) >>] >>

-----------------------------------------------------------------------------
(* Specification Spec: the processed file, the trainer and the dashboard.  *)

\* the columns a processed file can hold besides its salary column
CsvNames ==
    << <<"titulo">>, <<"location">>, <<"descripcion">>, <<"tecnologias">> >>

CsvCells ==
    [n \in Range(CsvNames) \cup {<<"salary">>} |->
        CASE n = <<"titulo">> ->
                 {Null, StrCell(<<"Dev", " ", "Python", " ", "Senior">>)}
          [] n = <<"location">> ->
                 {Null,
                  StrCell(<<"{", "'", "display_name", "'", ":", " ", "'",
                            "Kingdom", " ", "of", " ", "Spain", "'", "}">>)}
          [] n = <<"descripcion">> ->
                 {Null, StrCell(<<"3", " ", "years", " ", "experiencia", " ", "python">>)}
          [] n = <<"tecnologias">> ->
                 {Null, StrCell(<<"Python", ",", " ", "Docker">>)}
          [] OTHER -> {Null, NumCell(2 * 30000)}]


\* the values the widgets of the prediction form can return
FormFields(loaded, metadata) ==
    IF loaded.raised \/ ~HasColumn(loaded.df, <<"tecnologias">>) THEN {NoInput}
    ELSE [location_input : SelectboxValues(loaded.df, metadata.location_col),
          contract_input : SelectboxValues(loaded.df, metadata.contract_col),
          selected_tech_sidebar : SUBSET TechOptionsSidebar(loaded.df, metadata)]

\* what the user can enter in the prediction form of one run
FormChoices(file, model_file) ==
    IF file = <<>> \/ model_file = <<>> THEN {NoInput}
    ELSE FormFields(LoadedJobs(file), model_file[1])

\* lines 480-483
Predict(pipeline, row) ==
    [outcome |-> IF PredictRaises(pipeline, row) THEN "predict_raised" ELSE "predicted",
     input_df |-> row]

\* lines 446-483, the form submitted
BuildAndPredict(jobs, metadata, inputs) ==
    IF \E col \in Range(metadata.feature_cols) : DefaultRaises(jobs, col)
    THEN [outcome |-> "raised", input_df |-> <<>>]
    ELSE Predict(metadata.pipeline,
                 SelectColumns(InputData(jobs, metadata.feature_cols,
                                         inputs.location_input, inputs.contract_input,
                                         inputs.selected_tech_sidebar),
                               metadata.feature_cols))

\* lines 398-483; jobs_df['tecnologias'] of line 411 raises KeyError when the
\* table has no such column
PredictionPath(loaded, model_file, inputs) ==
    IF loaded.raised THEN [outcome |-> "raised", input_df |-> <<>>]
    ELSE IF model_file = <<>> THEN [outcome |-> "no_model", input_df |-> <<>>]
    ELSE IF ~HasColumn(loaded.df, <<"tecnologias">>)
    THEN [outcome |-> "raised", input_df |-> <<>>]
    ELSE BuildAndPredict(loaded.df, model_file[1], inputs)

\* one run of run_dashboard with the form submitted: how far it gets and the
\* table it hands to pipeline.predict
run_dashboard(file, model_file, inputs) ==
    IF file = <<>> THEN [outcome |-> "no_data", input_df |-> <<>>]
    ELSE PredictionPath(LoadedJobs(file), model_file, inputs)

Init ==
    /\ \/ csv = <<>>
       \/ \E cols \in ColumnChoices(CsvNames, MaxCsvCols), with_salary \in BOOLEAN :
             LET labels == IF with_salary THEN Append(cols, <<"salary">>) ELSE cols
             IN  /\ labels # <<>>
                 /\ \E cells \in CellChoices(labels, MaxCsvRows, CsvCells),
                       copies \in {1, MaxCopies} :
                        csv = <<[df |-> Frame(labels, cells), copies |-> copies]>>
    /\ artifact = <<>>
    /\ train_pc = "idle"
    /\ IdleDashboard
    /\ IdleClean
    /\ IdleResolve
    /\ IdleEtl
    /\ IdleStages

\* python src/model_salary.py
TrainSalaryModel ==
    LET res == train_salary_model(csv)
    IN  /\ train_pc' = res.outcome
        /\ artifact' = IF res.outcome = "saved" THEN res.metadata ELSE artifact
        /\ y_salary' = TrainingTarget(csv)
        /\ dash_pc' = "idle" /\ user_input' = NoInput /\ input_df' = <<>>
        /\ UNCHANGED <<csv, rng, features, dump_pc, lateVars, cleanVars, resolveVars, etlVars>>

\* python src/generate_spain_data.py
GenerateSpainData ==
    /\ \E city \in {<<"Madrid">>, <<"Barcelona">>} :
          csv' = <<[df |-> GeneratedFrame(city), copies |-> n_jobs \div 2]>>
    /\ dash_pc' = "idle" /\ user_input' = NoInput /\ input_df' = <<>>
    /\ UNCHANGED <<artifact, train_pc, cleanVars, resolveVars, etlVars, stageVars>>

\* a run of the dashboard script in which the user submits the prediction form
SubmitPrediction ==
    /\ \E inputs \in FormChoices(csv, artifact) :
          LET res == run_dashboard(csv, artifact, inputs)
          IN  /\ dash_pc' = res.outcome
              /\ user_input' = inputs
              /\ input_df' = res.input_df
    /\ UNCHANGED <<csv, artifact, train_pc, cleanVars, resolveVars, etlVars, stageVars>>

Next ==
    \/ TrainSalaryModel
    \/ GenerateSpainData
    \/ SubmitPrediction

Spec == Init /\ [][Next]_vars

-----------------------------------------------------------------------------
(* Properties of the artifact and of the prediction row, under Spec.       *)

\* list(df.columns)
ColumnLabels(df) == [i \in 1..Len(df) |-> df[i].name]

\* the dashboard run reached pipeline.predict with a row
RowBuilt == dash_pc \in {"predicted", "predict_raised"}

\* the skill_ names of the technologies picked in the form
SelectedSkillNames == {DashSkillName(tech) : tech \in user_input.selected_tech_sidebar}

\* the form value replaced the default of column n
Overridden(n) ==
    LET feature_cols == artifact[1].feature_cols
    IN  \/ /\ n = FirstIn(feature_cols, {<<"ubicacion">>, <<"location">>})
           /\ Truthy(user_input.location_input)
        \/ /\ n = FirstIn(feature_cols,
                          {<<"tipo_contrato">>, <<"jornada">>, <<"contract_type">>})
           /\ Truthy(user_input.contract_input)

\* C1: the one-row table handed to pipeline.predict has exactly the columns
\* of the artifact's feature_cols, in the same order, whatever the form
\* supplied or left out.
C1_RowHasFeatureCols ==
    RowBuilt =>
        /\ ColumnLabels(input_df) = artifact[1].feature_cols
        /\ \A i \in 1..Len(input_df) : Len(input_df[i].cells) = 1

\* a prediction on a row with a supplied location, a picked technology and a
\* zero-filled column
C1_Witness ==
    /\ dash_pc = "predicted"
    /\ Len(input_df) >= 3
    /\ Truthy(user_input.location_input)
    /\ user_input.selected_tech_sidebar # {}
    /\ \E i \in 1..Len(input_df) : input_df[i].cells[1] = NumCell(0)

\* C2: in the prediction row every skill_ and every seniority_ column
\* (seniority_mid included) is 0, except a skill_ column matching a picked
\* technology, which is 1.
C2_NumericDefaultsZero ==
    RowBuilt =>
        \A i \in 1..Len(input_df) :
            LET n == input_df[i].name
            IN  (StartsWith(n, "skill_") \/ StartsWith(n, "seniority_")) =>
                    input_df[i].cells[1] =
                        IF StartsWith(n, "skill_") /\ n \in SelectedSkillNames
                        THEN NumCell(2) ELSE NumCell(0)

\* C3: in the prediction row every categorical feature column the form did
\* not override holds the most frequent value of that column in the loaded
\* corpus, never null and never a label that does not occur in that column.
C3_CategoricalDefaultsAreModes ==
    RowBuilt =>
        \A i \in 1..Len(input_df) :
            LET n == input_df[i].name
            IN  (n \in Range(artifact[1].categorical_features) /\ ~Overridden(n)) =>
                    /\ HasColumn(LoadedJobs(csv).df, n)
                    /\ input_df[i].cells[1] \in Modes(Column(LoadedJobs(csv).df, n))

\* C4: in every written artifact categorical_features and numerical_features
\* are disjoint subsets of feature_cols that together cover it.
C4_FeatureListsPartition ==
    artifact # <<>> =>
        /\ Range(artifact[1].categorical_features) \subseteq Range(artifact[1].feature_cols)
        /\ Range(artifact[1].numerical_features) \subseteq Range(artifact[1].feature_cols)
        /\ Range(artifact[1].categorical_features)
               \cap Range(artifact[1].numerical_features) = {}
        /\ Range(artifact[1].feature_cols)
               \subseteq Range(artifact[1].categorical_features)
                         \cup Range(artifact[1].numerical_features)

\* C5: in every written artifact every name of skill_columns and every name
\* of tech_columns is a name of feature_cols.
C5_SkillAndTechColumnsAreFeatures ==
    artifact # <<>> =>
        /\ Range(artifact[1].skill_columns) \subseteq Range(artifact[1].feature_cols)
        /\ Range(artifact[1].tech_columns) \subseteq Range(artifact[1].feature_cols)

-----------------------------------------------------------------------------
(* Properties of a second run of transform_job_data, under SpecRerun.      *)

\* C11: transform_job_data run on its own output returns that table again,
\* with the same column names in the same order and the same value in every
\* cell.
C11_TransformIdempotent ==
    etl_pc = "returned_again" => etl_df = jobs_df

-----------------------------------------------------------------------------
(* Properties of the salary imputation, under SpecTransform.               *)

\* the raw table holds both bound columns
HasBoundPair == HasColumn(jobs_df, <<"salario_min">>) /\ HasColumn(jobs_df, <<"salario_max">>)

\* a salary np.random.randint(27000, 110001) can return
IsImputedSalary(c) ==
    /\ c.kind = "num" /\ c.num % 2 = 0
    /\ (c.num \div 2) \in ImputeLow..(ImputeHighExclusive - 1)

\* the mean of the bounds lo and hi that are not null
MeanOfBounds(lo, hi) ==
    IF IsNull(lo) THEN hi
    ELSE IF IsNull(hi) THEN lo
    ELSE NumCell((lo.num + hi.num) \div 2)

\* row r of the returned table is imputed when its bounds lo, hi count as
\* missing, and keeps them otherwise
BoundsRowAsClaimed(r, lo, hi) ==
    LET lo_out == Column(etl_df, <<"salario_min">>)[r]
        hi_out == Column(etl_df, <<"salario_max">>)[r]
        mean_out == Column(etl_df, <<"salario_promedio">>)[r]
    IN  IF IsNull(lo) /\ IsNull(hi)
        THEN IsImputedSalary(lo_out) /\ hi_out = lo_out /\ mean_out = lo_out
        ELSE lo_out = lo /\ hi_out = hi /\ mean_out = MeanOfBounds(lo, hi)

\* a table without the pair of bound columns leaves transform_job_data with
\* the bound column it has, if any, untouched and with no new salario_promedio
UnpairedUntouched ==
    /\ \A c \in {<<"salario_min">>, <<"salario_max">>} :
           HasColumn(jobs_df, c) =>
               HasColumn(etl_df, c) /\ Column(etl_df, c) = Column(jobs_df, c)
    /\ HasColumn(etl_df, <<"salario_promedio">>) => HasColumn(jobs_df, <<"salario_promedio">>)
    /\ \A i \in 1..Len(etl_df) : \A r \in 1..NumRows(etl_df) :
           IsImputedSalary(etl_df[i].cells[r]) =>
               \E j \in 1..Len(jobs_df) : IsImputedSalary(ToNumeric(jobs_df[j].cells[r]))

\* C14 (as claimed): a random salary goes only to the rows whose salario_min
\* and salario_max are both null in the raw table; every other row keeps its
\* two bounds as they were and gets the mean of its non-null bounds; a table
\* without the pair is not imputed.
C14_ImputesOnlyNullRows ==
    etl_pc = "returned" =>
        IF HasBoundPair
        THEN \A r \in 1..NumRows(jobs_df) :
                 BoundsRowAsClaimed(r, Column(jobs_df, <<"salario_min">>)[r],
                                       Column(jobs_df, <<"salario_max">>)[r])
        ELSE UnpairedUntouched

\* C14 (amended): with "null" read as null or not numeric, that is null after
\* pd.to_numeric(errors='coerce'): a random integer salary in [27000, 110000]
\* goes to exactly the rows without a numeric bound, every other row keeps
\* its numeric bounds and gets the mean of those that are not null, and a
\* table without the pair is not imputed.
C14_ImputesOnlyRowsWithoutNumericBound ==
    etl_pc = "returned" =>
        IF HasBoundPair
        THEN \A r \in 1..NumRows(jobs_df) :
                 BoundsRowAsClaimed(r, ToNumeric(Column(jobs_df, <<"salario_min">>)[r]),
                                       ToNumeric(Column(jobs_df, <<"salario_max">>)[r]))
        ELSE UnpairedUntouched

\* a returned table with an imputed row whose bounds were both null
C14_Witness ==
    /\ etl_pc = "returned" /\ HasBoundPair
    /\ \E r \in 1..NumRows(jobs_df) :
           /\ IsNull(Column(jobs_df, <<"salario_min">>)[r])
           /\ IsNull(Column(jobs_df, <<"salario_max">>)[r])
           /\ IsImputedSalary(Column(etl_df, <<"salario_promedio">>)[r])

-----------------------------------------------------------------------------
(* Specification SpecFeatures: a raw table goes through transform_job_data, *)
(* and preprocess_data is applied to the raw table or to the unified one.   *)

\* the raw row of scenario A
ScenarioA ==
    Frame(<< <<"titulo">>, <<"salario">>, <<"ubicacion">>, <<"tecnologias">> >>,
          << <<StrCell(<<"Dev", " ", "Python", " ", "Senior">>)>>,
             <<StrCell(<<"3", "0", "0", "0", "0", " ", "-", " ",
                         "4", "0", "0", "0", "0">>)>>,
             <<StrCell(<<"Madrid">>)>>,
             <<StrCell(<<"Python", ",", " ", "Docker">>)>> >>)

\* scenario A, or a table of descriptions and technology lists
InitFeatures ==
    /\ etl_pc = "call"
    /\ LET names == << <<"descripcion">>, <<"tecnologias">> >>
           values == [n \in Range(names) |->
                         IF n = <<"descripcion">>
                         THEN {Null, StrCell(<<"python">>),
                               StrCell(<<"1", " ", "years", " ", "experiencia">>),
                               StrCell(<<"5", " ", "years", " ", "experiencia", " ",
                                         "python">>)}
                         ELSE {Null, StrCell(<<"Python", ",", " ", "Docker">>),
                               StrCell(<<"Python", ",", " ", "python">>)}]
       IN  \/ jobs_df = ScenarioA
           \/ \E cols \in ColumnChoices(names, MaxFeatureCols), rows \in 1..MaxFeatureRows :
                 \E cells \in CellChoices(cols, rows, values) :
                     jobs_df = Frame(cols, cells)
    /\ etl_df = <<>>
    /\ IdleClean
    /\ IdleResolve
    /\ IdlePipeline
    /\ IdleStages

\* df = preprocess_data(df), on the table as read or as transform_job_data returned it
PreprocessData ==
    /\ etl_pc \in {"call", "returned"}
    /\ LET data == IF etl_pc = "returned" THEN etl_df ELSE jobs_df
       IN  features' = [pc |-> "done", data |-> data, out |-> preprocess_data(data)]
    /\ UNCHANGED <<rng, y_salary, dump_pc, lateVars, cleanVars, resolveVars, etlVars,
                   pipelineVars>>

SpecFeatures == InitFeatures /\ [][TransformJobData \/ PreprocessData]_vars

-----------------------------------------------------------------------------
(* Properties of preprocess_data, under SpecFeatures.                      *)

\* the skill_ names of the raw tokens of one cell of tecnologias
SkillNamesOf(c) == {SkillName(Strip(tok)) : tok \in {t \in Tokens(c) : Strip(t) # <<>>}}

\* C12 (as claimed): raw technology tokens that differ only in case or surrounding
\* whitespace get exactly one skill_<name> column, whose value is exactly 1 in a
\* row mentioning one or several of them and 0 in a row mentioning none.
C12_OneSkillColumnValueOne ==
    (features.pc = "done" /\ HasColumn(features.data, <<"tecnologias">>)) =>
        LET cells == Column(features.data, <<"tecnologias">>)
        IN  \A name \in UNION {SkillNamesOf(cells[r]) : r \in 1..Len(cells)} :
                /\ CountLabel(features.out, name) = 1
                /\ \A r \in 1..Len(cells) :
                      Column(features.out, name)[r] =
                          IF name \in SkillNamesOf(cells[r]) THEN NumCell(2) ELSE NumCell(0)

\* the column `name` of the feature table has the one value v (in halves)
FeatureIs(name, v) ==
    HasColumn(features.out, name) /\ Column(features.out, name) = <<NumCell(v)>>

\* C13 (as claimed): scenario A through transform_job_data and preprocess_data
\* yields salary 35000.0 and a feature row with seniority_senior=1,
\* seniority_junior=0, skill_python=1, skill_docker=1 and loc_madrid=1.
C13_ScenarioAFeatureRow ==
    (/\ jobs_df = ScenarioA
     /\ etl_pc = "returned"
     /\ features.pc = "done"
     /\ features.data = etl_df) =>
        /\ FeatureIs(<<"salary">>, 2 * 35000)
        /\ FeatureIs(<<"seniority_", "senior">>, 2)
        /\ FeatureIs(<<"seniority_", "junior">>, 0)
        /\ FeatureIs(<<"skill_", "python">>, 2)
        /\ FeatureIs(<<"skill_", "docker">>, 2)
        /\ FeatureIs(<<"loc_", "madrid">>, 2)

\* the parts of scenario A that do not depend on the title
ScenarioAWithoutTitleFlags ==
    (/\ jobs_df = ScenarioA
     /\ etl_pc = "returned"
     /\ features.pc = "done"
     /\ features.data = etl_df) =>
        /\ FeatureIs(<<"salary">>, 2 * 35000)
        /\ FeatureIs(<<"skill_", "python">>, 2)
        /\ FeatureIs(<<"skill_", "docker">>, 2)
        /\ FeatureIs(<<"loc_", "madrid">>, 2)
        /\ ~HasColumn(features.out, <<"seniority_", "senior">>)
        /\ ~HasColumn(features.out, <<"titulo">>)

DescriptionCandidates ==
    << <<"descripcion">>, <<"description">>, <<"requisitos">>, <<"requirements">> >>

\* the median of a sequence of numbers, read off a sorted arrangement of it
MedianBySorting(vals) ==
    LET n == Len(vals)
        order == CHOOSE f \in [1..n -> 1..n] :
                     /\ \A i, j \in 1..n : f[i] = f[j] => i = j
                     /\ \A i \in 1..(n - 1) : vals[f[i]] <= vals[f[i + 1]]
    IN  IF n % 2 = 1 THEN vals[order[(n + 1) \div 2]]
        ELSE (vals[order[n \div 2]] + vals[order[(n \div 2) + 1]]) \div 2

\* C16: when a description column is resolved, required_years_exp has no null;
\* if some row yields a number, rows with one keep it and the others get the
\* median of the extracted numbers; all rows get the constant 2 exactly when no
\* row yields a number.
C16_YearsFilledWithMedianOrDefault ==
    (/\ features.pc = "done"
     /\ FirstUsable(features.data, DescriptionCandidates) # NoColumn) =>
        LET cells == Column(features.data, FirstUsable(features.data, DescriptionCandidates))
            n == Len(cells)
            extracted == [r \in 1..n |-> ExtractYears(cells[r])]
            found == SelectSeq(extracted, LAMBDA c : ~IsNull(c))
            numbers == [i \in 1..Len(found) |-> found[i].num]
        IN  /\ HasColumn(features.out, <<"required_years_exp">>)
            /\ LET years == Column(features.out, <<"required_years_exp">>)
               IN  /\ \A r \in 1..n : years[r].kind = "num"
                   /\ IF numbers = <<>>
                      THEN \A r \in 1..n : years[r].num = 2 * 2
                      ELSE \A r \in 1..n :
                               years[r].num = IF IsNull(extracted[r])
                                              THEN MedianBySorting(numbers)
                                              ELSE extracted[r].num

\* C16 witness: one row of the description column states 5 years, another row is a
\* text that states none, and that row carries the median of the stated numbers.
C16_Witness ==
    /\ features.pc = "done"
    /\ HasColumn(features.data, <<"descripcion">>)
    /\ HasColumn(features.out, <<"required_years_exp">>)
    /\ \E r1, r2 \in 1..NumRows(features.data) :
          /\ ExtractYears(Column(features.data, <<"descripcion">>)[r1]) = NumCell(2 * 5)
          /\ Column(features.data, <<"descripcion">>)[r2] = StrCell(<<"python">>)
          /\ Column(features.out, <<"required_years_exp">>)[r2] = NumCell(2 * 5)

\* C17 (as claimed): after preprocess_data the feature table has the column
\* required_years_exp, whatever the input table.
C17_YearsColumnAlwaysPresent ==
    features.pc = "done" => HasColumn(features.out, <<"required_years_exp">>)

\* required_years_exp is in the feature table exactly when a description column
\* resolved
YearsColumnIffDescription ==
    features.pc = "done" =>
        (HasColumn(features.out, <<"required_years_exp">>)
            <=> FirstUsable(features.data, DescriptionCandidates) # NoColumn)

-----------------------------------------------------------------------------
(* Specification SpecSeeded: a caller seeds numpy's global generator and    *)
(* runs transform_job_data, twice on the same table.                        *)
(*                                                                         *)
(* rng.streams[s] is the sequence of numbers the generator yields after     *)
(* np.random.seed(s): some function of s, the same in every run.  rng.seed  *)
(* is the last seed set (0: none) and rng.pos the numbers drawn since.      *)

Seeds == {1, 2}

\* np.random.seed(seed) with the generator left where it is
Reseed_Keep(generator, seed) == [generator EXCEPT !.seed = seed]

\* np.random.seed(seed)
Reseed(generator, seed) == [generator EXCEPT !.seed = seed, !.pos = 0]

\* np.random.randint(27000, 110001, size=size) on the global generator
Randint(generator, size) ==
    [values |-> SubSeq(generator.streams[generator.seed],
                       generator.pos + 1, generator.pos + size),
     rng |-> [generator EXCEPT !.pos = @ + size]]

\* missing_salary_mask, as the set of its rows
MissingSalaryRows(df_in) ==
    LET salary == UnifySalary(ParseDates(CollapseDuplicates(ApplyColumnMapping(df_in))))
    IN  IF \/ salary.raised
           \/ ~HasColumn(salary.df, <<"salario_min">>)
           \/ ~HasColumn(salary.df, <<"salario_max">>)
        THEN {}
        ELSE {r \in 1..NumRows(salary.df) :
                 /\ IsNull(ToNumeric(Column(salary.df, <<"salario_min">>)[r]))
                 /\ IsNull(ToNumeric(Column(salary.df, <<"salario_max">>)[r]))}

\* df.loc[missing_salary_mask, ...] = random_salaries: the k-th drawn number goes
\* to the k-th row of the mask
RowDraws(df_in, values) ==
    LET mask == MissingSalaryRows(df_in)
    IN  [r \in 1..NumRows(df_in) |->
            IF r \in mask THEN values[Cardinality({q \in mask : q <= r})]
            ELSE 2 * ImputeLow]

\* a table of salary bounds, and a generator whose streams hold the numbers two
\* runs can draw
InitSeeded ==
    /\ etl_pc = "call"
    /\ LET names == << <<"salario_min">>, <<"salario_max">> >>
           values == [n \in Range(names) |->
                         IF n = <<"salario_min">> THEN {Null, NumCell(2)}
                         ELSE {Null, NumCell(4)}]
       IN  \E cols \in ColumnChoices(names, MaxRawCols) :
               \E cells \in CellChoices(cols, MaxRawRows, values) :
                   jobs_df = Frame(cols, cells)
    /\ etl_df = <<>>
    /\ \E streams \in [Seeds -> [1..(2 * MaxRawRows) -> ImputedSalaries]] :
          rng = [streams |-> streams, seed |-> 0, pos |-> 0]
    /\ features = [pc |-> "idle", data |-> <<>>, out |-> <<>>]
    /\ y_salary = <<>>
    /\ dump_pc = "idle"
    /\ IdleLate
    /\ IdleClean
    /\ IdleResolve
    /\ IdlePipeline

\* np.random.seed(seed); transform_job_data(jobs_df): the first run, and a rerun
\* on the same table
SeededTransform ==
    /\ etl_pc \in {"call", "returned"}
    /\ \E seed \in Seeds :
          \E drawn \in {Randint(Reseed(rng, seed), Cardinality(MissingSalaryRows(jobs_df)))} :
          \E random_salaries \in {RowDraws(jobs_df, drawn.values)} :
              LET res == transform_job_data(jobs_df, random_salaries)
              IN  /\ rng' = drawn.rng
                  /\ etl_df' = res.df
                  /\ etl_pc' = IF res.raised THEN "raised"
                               ELSE IF etl_pc = "call" THEN "returned" ELSE "rerun"
    /\ UNCHANGED <<jobs_df, features, y_salary, dump_pc, lateVars, cleanVars, resolveVars,
                   pipelineVars>>

SpecSeeded == InitSeeded /\ [][SeededTransform]_vars

-----------------------------------------------------------------------------
(* Specification SpecTrain: train_salary_model on a processed file whose    *)
(* salary column holds numbers, nulls and texts that are no number.         *)

\* a processed file with a column salary and, at most, a title and a technology list
InitTrain ==
    /\ LET names == << <<"titulo">>, <<"tecnologias">> >>
           values == [n \in Range(names) \cup {<<"salary">>} |->
                         CASE n = <<"titulo">> ->
                                  {Null, StrCell(<<"Dev", " ", "Python", " ", "Senior">>)}
                           [] n = <<"tecnologias">> ->
                                  {Null, StrCell(<<"Python", ",", " ", "Docker">>)}
                           [] OTHER -> {Null, NumCell(2 * 30000), StrCell(<<"x">>)}]
       IN  \E cols \in ColumnChoices(names, MaxCsvCols) :
               \E cells \in CellChoices(Append(cols, <<"salary">>), MaxFeatureRows, values),
                  copies \in {1, MaxCopies} :
                   csv = <<[df |-> Frame(Append(cols, <<"salary">>), cells),
                            copies |-> copies]>>
    /\ artifact = <<>>
    /\ train_pc = "idle"
    /\ IdleDashboard
    /\ IdleClean
    /\ IdleResolve
    /\ IdleEtl
    /\ IdleStages

SpecTrain == InitTrain /\ [][TrainSalaryModel]_vars

\* the rows of the processed file whose resolved salary is a number
NumericSalaryRows(file) ==
    LET salary_col == determine_salary_column(file[1].df)
    IN  IF salary_col = NoColumn THEN {}
        ELSE {r \in 1..NumRows(file[1].df) :
                 Column(file[1].df, salary_col)[r].kind = "num"}

\* C18: every row that reaches the train/test split has a numeric salary, those
\* rows are the rows of the file with a numeric salary, and a run that finds none
\* stops with that report and writes no artifact.
C18_OnlyNumericSalariesReachSplit ==
    [][/\ train_pc' \in {"raised", "saved"} =>
              /\ \A k \in 1..Len(y_salary') : y_salary'[k].kind = "num"
              /\ Len(y_salary') = Cardinality(NumericSalaryRows(csv))
              /\ y_salary' # <<>>
       /\ NumericSalaryRows(csv) = {} =>
              /\ train_pc' \in {"no_salary_column", "no_salary_rows"}
              /\ artifact' = artifact
              /\ y_salary' = <<>>]_vars

\* C18 witness: a run saved an artifact for a file in which one row has a numeric
\* salary and another has a text that is no number, and the split got one row.
C18_Witness ==
    /\ train_pc = "saved"
    /\ \E r1, r2 \in 1..NumRows(csv[1].df) :
          /\ Column(csv[1].df, <<"salary">>)[r1].kind = "num"
          /\ Column(csv[1].df, <<"salary">>)[r2].kind = "str"
    /\ Len(y_salary) < NumRows(csv[1].df)
    /\ \A k \in 1..Len(y_salary) : y_salary[k].kind = "num"

\* C19 (as claimed): a run that finds no usable feature ends in an error its
\* caller sees, and writes no artifact.
C19_NoFeaturesIsExplicitError ==
    train_pc = "no_features" => (train_model(train_pc) = "error" /\ artifact = <<>>)

\* a run that finds no usable feature writes no artifact
NoFeaturesNoArtifact == train_pc = "no_features" => artifact = <<>>

-----------------------------------------------------------------------------
(* Specification SpecDump: joblib.dump of train_salary_model and joblib.load *)
(* of the dashboard as steps of two processes.  joblib.dump opens the       *)
(* artifact path for writing and fills it in place: while dump_pc is        *)
(* "writing" the file exists and holds a prefix of the pickle of `artifact`. *)

\* line 484, up to the moment the file is open and partly written
BeginDump ==
    /\ dump_pc = "idle"
    /\ LET res == train_salary_model(csv)
       IN  /\ res.outcome = "saved"
           /\ artifact' = res.metadata
    /\ y_salary' = TrainingTarget(csv)
    /\ train_pc' = "dumping"
    /\ dump_pc' = "writing"
    /\ UNCHANGED <<csv, dash_pc, user_input, input_df, rng, features, lateVars,
                   cleanVars, resolveVars, etlVars>>

\* line 484 returns: the file is complete and closed
FinishDump ==
    /\ dump_pc = "writing"
    /\ dump_pc' = "idle"
    /\ train_pc' = "saved"
    /\ UNCHANGED <<csv, artifact, dash_pc, user_input, input_df, rng, features, y_salary, lateVars,
                   cleanVars, resolveVars, etlVars>>

\* app.py lines 397-403: os.path.exists, then joblib.load inside try/except; a
\* truncated pickle makes joblib.load raise
LoadArtifact ==
    /\ dash_pc' = IF artifact = <<>> THEN "no_model"
                  ELSE IF dump_pc = "writing" THEN "load_error"
                  ELSE "loaded"
    /\ UNCHANGED <<csv, artifact, train_pc, user_input, input_df, stageVars,
                   cleanVars, resolveVars, etlVars>>

SpecDump == Init /\ [][BeginDump \/ FinishDump \/ LoadArtifact \/ GenerateSpainData]_vars

\* C20 (as claimed): a dashboard that loads the artifact path at any moment finds
\* no file or a complete artifact, never a partially written file.
C20_DashboardNeverSeesPartialFile == dash_pc # "load_error"

-----------------------------------------------------------------------------
(* Specification SpecView: run_dashboard renders its page while the         *)
(* artifact file is absent, being written, or complete.                     *)

\* model_metadata of lines 397-403 without the try/except around joblib.load
LoadModel_Unguarded(model_file, partial) == model_file

\* model_metadata of lines 397-403: None (<<>>) when the file is absent or
\* joblib.load raises on it
LoadModel(model_file, partial) ==
    IF model_file = <<>> \/ partial THEN <<>> ELSE model_file

\* series.str.contains(r'\b' + tech + r'\b', na=False), one cell; the
\* technologies of the model are words, so a match starts and ends at chunks
MentionsTech(c, tech) ==
    /\ c.kind = "str"
    /\ \E i \in 1..(Len(c.str) - Len(tech) + 1) : SubSeq(c.str, i, i + Len(tech) - 1) = tech

\* lines 489-499: the rows left by the location and technology filters; a
\* null selection stands for 'Todas'
ApplyFilters(jobs, location_col, selected_location, selected_tech) ==
    LET kept == SelectSeq([r \in 1..NumRows(jobs) |-> r],
                    LAMBDA r :
                        /\ \/ IsNull(selected_location)
                           \/ location_col = NoColumn
                           \/ Column(jobs, location_col)[r] = selected_location
                        /\ \/ IsNull(selected_tech)
                           \/ ~HasColumn(jobs, <<"tecnologias">>)
                           \/ MentionsTech(Column(jobs, <<"tecnologias">>)[r],
                                           selected_tech.str))
    IN  [i \in 1..Len(jobs) |->
            [name |-> jobs[i].name,
             cells |-> [k \in 1..Len(kept) |-> jobs[i].cells[kept[k]]]]]

\* lines 373-392: what the location and technology pickers can return
LocationOptions(jobs, location_col) ==
    {Null} \cup (IF location_col = NoColumn THEN {}
                 ELSE {c \in Range(Column(jobs, location_col)) : ~IsNull(c)})

TechOptions(jobs) ==
    {Null} \cup (IF ~HasColumn(jobs, <<"tecnologias">>) THEN {}
                 ELSE {StrCell(t) : t \in AllTechsPred(Column(jobs, <<"tecnologias">>))})

\* lines 373-499 for one choice of the filters: the sidebar shows the form, or
\* the note that no model was found (after the load error, if any); line 411
\* raises KeyError when a model is loaded and the table has no tecnologias
Page(jobs, location_col, model_metadata, model, selected_location, selected_tech) ==
    [pc |-> "done",
     model |-> model,
     outcome |-> IF model_metadata # <<>> /\ ~HasColumn(jobs, <<"tecnologias">>)
                 THEN "form_raised" ELSE "rendered",
     sidebar |-> IF model_metadata # <<>>
                 THEN (IF HasColumn(jobs, <<"tecnologias">>) THEN "form" ELSE "none")
                 ELSE IF model = "unloadable" THEN "error_info" ELSE "info",
     selected_location |-> selected_location,
     selected_tech |-> selected_tech,
     jobs |-> jobs,
     filtered_df |-> IF model_metadata # <<>> /\ ~HasColumn(jobs, <<"tecnologias">>)
                     THEN <<>>
                     ELSE ApplyFilters(jobs, location_col, selected_location, selected_tech)]

\* the pages of a run that never reaches the sidebar
EarlyPage(model, outcome) == [NoPage EXCEPT !.pc = "done", !.model = model, !.outcome = outcome]

\* the pages run_dashboard can render on the table `loaded`
PagesOf(loaded, location_col, model_metadata, model) ==
    IF loaded.raised THEN {EarlyPage(model, "data_raised")}
    ELSE {Page(loaded.df, location_col, model_metadata, model, selected_location, selected_tech) :
              selected_location \in LocationOptions(loaded.df, location_col),
              selected_tech \in TechOptions(loaded.df)}

\* what the artifact path holds for joblib.load
ModelFileState(model_file, partial) ==
    IF model_file = <<>> THEN "absent" ELSE IF partial THEN "unloadable" ELSE "loaded"

\* one run of run_dashboard without a submitted form
RenderDashboard ==
    /\ view' \in IF csv = <<>>
                 THEN {EarlyPage(ModelFileState(artifact, dump_pc = "writing"), "no_data")}
                 ELSE PagesOf(LoadedJobs(csv), FirstPresent(csv[1].df, LocationCandidates),
                              LoadModel(artifact, dump_pc = "writing"),
                              ModelFileState(artifact, dump_pc = "writing"))
    /\ UNCHANGED <<cleanVars, resolveVars, etlVars, pipelineVars, rng, features, y_salary,
                   dump_pc, ranking, raw_file, full_run>>

SpecView == Init /\ [][BeginDump \/ FinishDump \/ RenderDashboard]_vars

\* row r of the table jobs passes the filters of the page
PassesFilters(page, r) ==
    /\ \/ IsNull(page.selected_location)
       \/ \E i \in 1..Len(page.jobs) :
             /\ page.jobs[i].name \in Range(LocationCandidates)
             /\ page.jobs[i].cells[r] = page.selected_location
    /\ \/ IsNull(page.selected_tech)
       \/ MentionsTech(Column(page.jobs, <<"tecnologias">>)[r], page.selected_tech.str)

\* C21: a run that gets its table loaded while the artifact file is absent or
\* not loadable renders the page: the sidebar says that no model was found
\* (after the load error, for a file that does not load), shows no prediction
\* form, and the views get exactly the rows that pass the chosen filters.
C21_NoModelStillRenders ==
    (/\ view.pc = "done"
     /\ view.model \in {"absent", "unloadable"}
     /\ view.outcome \notin {"no_data", "data_raised"}) =>
        /\ view.outcome = "rendered"
        /\ view.sidebar = IF view.model = "unloadable" THEN "error_info" ELSE "info"
        /\ Len(view.filtered_df) = Len(view.jobs)
        /\ NumRows(view.filtered_df)
               = Cardinality({r \in 1..NumRows(view.jobs) : PassesFilters(view, r)})
        /\ \A k \in 1..NumRows(view.filtered_df) :
               \E r \in 1..NumRows(view.jobs) :
                   /\ PassesFilters(view, r)
                   /\ \A i \in 1..Len(view.jobs) :
                          view.filtered_df[i].cells[k] = view.jobs[i].cells[r]

\* C21 witness: a page rendered while joblib.dump was writing the artifact, with a
\* technology chosen in the filter and a row shown
C21_Witness ==
    /\ view.pc = "done"
    /\ view.model = "unloadable"
    /\ dump_pc = "writing"
    /\ view.outcome = "rendered"
    /\ ~IsNull(view.selected_tech)
    /\ NumRows(view.filtered_df) >= 1

-----------------------------------------------------------------------------
(* The dashboard's and the trainer's names of a technology, under Spec.     *)

\* the technologies the dashboard reads in the tecnologias column of the file
ShownTechs(file) ==
    IF file = <<>> \/ ~HasColumn(file[1].df, <<"tecnologias">>) THEN {}
    ELSE AllTechsPred(Column(file[1].df, <<"tecnologias">>))

\* C22: for every technology name of the processed file, and so for every one
\* the dashboard shows, the column name the dashboard derives is the one the
\* trainer derives from that token; so the picker of the form offers a
\* technology of the loaded rows exactly when the trainer's column of it is
\* among the model's skill features, and the prediction row holds 1 in the
\* trainer's column of every chosen technology that is a feature.
C22_DashboardNameIsTrainerName ==
    /\ \A tech \in ShownTechs(csv) : DashSkillName(tech) = SkillName(Strip(tech))
    /\ dash_pc \in {"predicted", "predict_raised"} =>
          /\ \A tech \in ShownTechs(<<[df |-> LoadedJobs(csv).df, copies |-> 1]>>) :
                (tech \in TechOptionsSidebar(LoadedJobs(csv).df, artifact[1]))
                    <=> (SkillName(Strip(tech))
                            \in Range(get_important_skill_features(artifact[1])))
          /\ \A tech \in user_input.selected_tech_sidebar :
                SkillName(Strip(tech)) \in Range(artifact[1].feature_cols) =>
                    Column(input_df, SkillName(Strip(tech)))[1] = NumCell(2)

\* C22 witness: a prediction row built with 'Python' chosen, a name with an
\* upper-case letter, holding 1 in the trainer's column skill_python
C22_Witness ==
    /\ dash_pc = "predicted"
    /\ <<"Python">> \in user_input.selected_tech_sidebar
    /\ <<"skill_", "python">> \in Range(artifact[1].feature_cols)
    /\ Column(input_df, <<"skill_", "python">>)[1] = NumCell(2)

-----------------------------------------------------------------------------
(* Specification SpecImportance: the loop of train_salary_model that fills  *)
(* important_skills, lines 448-458, run for a final step that exposes       *)
(* feature_importances_.  Importances are in thousandths.  A name is a      *)
(* sequence of chunks cut so that a name that is a substring of another is  *)
(* an infix of its chunks: skill_c is <<"skill_", "c">>, skill_csharp is    *)
(* <<"skill_", "c", "sharp">>.                                              *)

\* imp > 0.001
ImportanceThreshold == 1

\* at most this many skill columns in the table
MaxSkills == 3

\* the skill columns of the table, in the order of df.columns: get_dummies
\* sorts the tokens, so skill_c comes before skill_csharp
SkillUniverse ==
    << <<"skill_", "c">>, <<"skill_", "c", "sharp">>, <<"skill_", "python">> >>

\* importances of 0.0, 0.001, 0.25 and 0.5
ImportanceValues == {0, 1, 250, 500}

\* sub in text, both sequences of chunks
IsInfix(sub, text) ==
    \E i \in 0..(Len(text) - Len(sub)) : SubSeq(text, i + 1, i + Len(sub)) = sub

\* ColumnTransformer.get_feature_names_out() for the 'num' transformer
NumFeatureName(col) == <<"num__">> \o col

\* lines 452-458: the first skill column whose name occurs in feature_name;
\* <<>> when there is none
FirstSkillIn(skill_columns, feature_name) ==
    LET hits == SelectSeq(skill_columns, LAMBDA skill : IsInfix(skill, feature_name))
    IN  IF hits = <<>> THEN <<>> ELSE <<hits[1]>>

\* lines 448-458: important_skills, in the order of the features
RECURSIVE ImportantSkills(_, _, _, _)
ImportantSkills(skill_columns, feature_names_transformed, importances, i) ==
    IF i > Len(importances) THEN <<>>
    ELSE (IF importances[i] > ImportanceThreshold
             /\ FirstSkillIn(skill_columns, feature_names_transformed[i]) # <<>>
          THEN << [name |-> FirstSkillIn(skill_columns, feature_names_transformed[i])[1],
                   importance |-> importances[i]] >>
          ELSE <<>>)
         \o ImportantSkills(skill_columns, feature_names_transformed, importances, i + 1)

\* a table with some of the skill columns and, or not, seniority_senior; the
\* importances of a fitted final step
InitImportance ==
    /\ \E picked \in SUBSET (1..Len(SkillUniverse)), with_seniority \in BOOLEAN :
          /\ Cardinality(picked) <= MaxSkills
          /\ \E skill_columns \in {SelectSeq(SkillUniverse,
                                       LAMBDA s : \E k \in picked : SkillUniverse[k] = s)} :
             \E names \in {[k \in 1..Len(skill_columns) |-> NumFeatureName(skill_columns[k])]
                              \o (IF with_seniority
                                  THEN << NumFeatureName(<<"seniority_", "senior">>) >>
                                  ELSE <<>>)} :
             \E importances \in [1..Len(names) -> ImportanceValues] :
                 ranking = [pc |-> "fitted", skill_columns |-> skill_columns,
                            feature_names_transformed |-> names,
                            importances |-> importances, important_skills |-> <<>>]
    /\ view = NoPage
    /\ raw_file = NoRawFile
    /\ full_run = NoRun
    /\ rng = [streams |-> <<>>, seed |-> 0, pos |-> 0]
    /\ features = [pc |-> "idle", data |-> <<>>, out |-> <<>>]
    /\ y_salary = <<>>
    /\ dump_pc = "idle"
    /\ IdleClean
    /\ IdleResolve
    /\ IdleEtl
    /\ IdlePipeline

\* lines 433-458
ExtractImportantSkills ==
    /\ ranking.pc = "fitted"
    /\ ranking' = [ranking EXCEPT
                      !.pc = "done",
                      !.important_skills =
                          ImportantSkills(ranking.skill_columns,
                                          ranking.feature_names_transformed,
                                          ranking.importances, 1)]
    /\ UNCHANGED <<cleanVars, resolveVars, etlVars, pipelineVars, rng, features, y_salary,
                   dump_pc, view, raw_file, full_run>>

SpecImportance == InitImportance /\ [][ExtractImportantSkills]_vars

EntryAboveThreshold ==
    ranking.pc = "done" =>
        \A k \in 1..Len(ranking.important_skills) :
            /\ ranking.important_skills[k].importance > ImportanceThreshold
            /\ \E i \in 1..Len(ranking.importances) :
                  /\ IsInfix(ranking.important_skills[k].name,
                             ranking.feature_names_transformed[i])
                  /\ ranking.importances[i] = ranking.important_skills[k].importance

-----------------------------------------------------------------------------
(* Scenario C, under Spec: a corpus in which no row has any technology.     *)

\* no row of the file names a technology: the tecnologias column is absent or
\* holds no token
NoTechnology(file) ==
    /\ file # <<>>
    /\ HasColumn(file[1].df, <<"tecnologias">>) =>
           AllTechsPred(Column(file[1].df, <<"tecnologias">>)) = {}

\* the artifact of a corpus without technologies lists no skill
NoTechnologyNoSkills ==
    (NoTechnology(csv) /\ artifact # <<>>) =>
        /\ artifact[1].skill_columns = <<>>
        /\ artifact[1].important_skills = <<>>

\* C24 (as claimed): the artifact trained on a corpus without technologies has
\* skill_columns = [] and important_skills = [], and the prediction path of
\* the dashboard on that artifact and corpus does not raise; no technology can
\* be selected, so the prediction row holds no skill set to 1.
C24_ScenarioCPredictionPath ==
    (NoTechnology(csv) /\ artifact # <<>>) =>
        /\ artifact[1].skill_columns = <<>>
        /\ artifact[1].important_skills = <<>>
        /\ dash_pc \notin {"raised", "predict_raised"}
        /\ user_input.selected_tech_sidebar = {}
        /\ \A i \in 1..Len(input_df) :
               StartsWith(input_df[i].name, "skill_") => input_df[i].cells[1] = NumCell(0)

-----------------------------------------------------------------------------
(* Specification SpecCollect: the duplicate elimination of                  *)
(* fetch_real_job_data on the concatenated offers of the sources.           *)

\* rows of the concatenated table
MaxOffers == 3

\* series.astype(str), one cell of the id column: a null becomes the text 'nan'
AsStr(c) == IF IsNull(c) THEN StrCell(<<"nan">>) ELSE c

\* df.drop_duplicates(subset, keep='first'): a row goes when an earlier row has
\* the same cells, nulls alike, in the columns of subset
DropDuplicates(df, subset) ==
    LET kept == SelectSeq([r \in 1..NumRows(df) |-> r],
                    LAMBDA r : \A q \in 1..(r - 1) :
                                   \E c \in Range(subset) : Column(df, c)[q] # Column(df, c)[r])
    IN  [i \in 1..Len(df) |->
            [name |-> df[i].name,
             cells |-> [k \in 1..Len(kept) |-> df[i].cells[kept[k]]]]]

\* lines 824-826
DropDuplicateIds(df) ==
    IF HasColumn(df, <<"id">>) /\ NotnaAny(Column(df, <<"id">>))
    THEN DropDuplicates(SetColumn(df, <<"id">>,
                            [r \in 1..NumRows(df) |-> AsStr(Column(df, <<"id">>)[r])]),
                        << <<"id">> >>)
    ELSE df

\* lines 824-829
RemoveDuplicateOffers(df) ==
    DropDuplicates(DropDuplicateIds(df), << <<"titulo">>, <<"empresa">>, <<"ubicacion">> >>)

\* the concatenated offers: with or without an id column
InitCollect ==
    /\ etl_pc = "collected"
    /\ LET values == [n \in {<<"id">>, <<"titulo">>, <<"empresa">>, <<"ubicacion">>} |->
                         CASE n = <<"id">> -> {Null, StrCell(<<"1">>), StrCell(<<"2">>)}
                           [] n = <<"titulo">> -> {StrCell(<<"Dev">>), StrCell(<<"Data">>)}
                           [] n = <<"empresa">> -> {StrCell(<<"Banco">>)}
                           [] OTHER -> {StrCell(<<"Madrid">>), StrCell(<<"Barcelona">>)}]
       IN  \E cols \in {<< <<"id">>, <<"titulo">>, <<"empresa">>, <<"ubicacion">> >>,
                        << <<"titulo">>, <<"empresa">>, <<"ubicacion">> >>} :
               \E cells \in CellChoices(cols, MaxOffers, values) :
                   jobs_df = Frame(cols, cells)
    /\ etl_df = <<>>
    /\ IdleClean
    /\ IdleResolve
    /\ IdlePipeline
    /\ IdleStages

\* lines 820-829 of fetch_real_job_data
FetchDeduplicate ==
    /\ etl_pc = "collected"
    /\ etl_pc' = "deduplicated"
    /\ etl_df' = RemoveDuplicateOffers(jobs_df)
    /\ UNCHANGED <<jobs_df, cleanVars, resolveVars, pipelineVars, stageVars>>

SpecCollect == InitCollect /\ [][FetchDeduplicate]_vars

\* the key of the claim: rows q and r have the same one
SameClaimedKey(df, q, r) ==
    IF HasColumn(df, <<"id">>) /\ NotnaAny(Column(df, <<"id">>))
    THEN ~IsNull(Column(df, <<"id">>)[q]) /\ Column(df, <<"id">>)[q] = Column(df, <<"id">>)[r]
    ELSE \A c \in {<<"titulo">>, <<"empresa">>, <<"ubicacion">>} :
             Column(df, c)[q] = Column(df, c)[r]

\* C25 (as claimed): the key is the id when the id column is present and has
\* non-null values, and (title, company, location) otherwise; exactly the rows
\* with an earlier row of the same key are removed, so rows with different
\* non-null ids are all kept and rows with a null id are not collapsed.
C25_RemovedOnlyOnSameKey ==
    etl_pc = "deduplicated" =>
        NumRows(etl_df)
            = Cardinality({r \in 1..NumRows(jobs_df) :
                              \A q \in 1..(r - 1) : ~SameClaimedKey(jobs_df, q, r)})

\* a row is removed only when an earlier row has the same title, company and
\* location or the same id text
RemovedOnlyOnSomeKey ==
    etl_pc = "deduplicated" =>
        NumRows(etl_df)
            >= Cardinality({r \in 1..NumRows(jobs_df) :
                   \A q \in 1..(r - 1) :
                       /\ \E c \in {<<"titulo">>, <<"empresa">>, <<"ubicacion">>} :
                              Column(jobs_df, c)[q] # Column(jobs_df, c)[r]
                       /\ HasColumn(jobs_df, <<"id">>) =>
                              Column(jobs_df, <<"id">>)[q] # Column(jobs_df, <<"id">>)[r]})

-----------------------------------------------------------------------------
(* Specification SpecRows: transform_job_data applied to a table of several *)
(* rows whose dates and salaries parse or do not.                           *)

\* rows and columns of the table
MaxDatedRows == 2

MaxDatedCols == 3

DatedNames ==
    << <<"titulo">>, <<"created_at">>, <<"fecha_publicacion">>, <<"salario">>, <<"salary">> >>

InitRows ==
    /\ etl_pc = "call"
    /\ LET values == [n \in Range(DatedNames) |->
                         CASE n = <<"titulo">> -> {StrCell(<<"x">>), StrCell(<<"y">>)}
                           [] n \in {<<"salario">>, <<"salary">>} ->
                                  {StrCell(<<"1", "-", "2">>), StrCell(<<"x">>)}
                           [] OTHER ->
                                  {StrCell(<<"2", "1", "2", "1", "-", "1", "2", "-", "1", "1">>),
                                   StrCell(<<"x">>)}]
       IN  \E cols \in ColumnChoices(DatedNames, MaxDatedCols) :
               \E cells \in CellChoices(cols, MaxDatedRows, values) :
                   jobs_df = Frame(cols, cells)
    /\ etl_df = <<>>
    /\ IdleClean
    /\ IdleResolve
    /\ IdlePipeline
    /\ IdleStages

SpecRows == InitRows /\ [][TransformJobData]_vars

\* the date column transform_job_data parses, and the salary column it cleans
ParsedDateColumn(df) ==
    IF HasColumn(df, <<"created_at">>) THEN <<"created_at">> ELSE <<"fecha_publicacion">>

CleanedSalaryColumn(df) ==
    IF HasColumn(df, <<"salario">>) THEN <<"salario">> ELSE <<"salary">>

-----------------------------------------------------------------------------
(* Feature families whose source column is absent or all null, under Spec.  *)

\* the labels of df that start with one of the prefixes
FamilyColumns(df, prefixes) ==
    {df[i].name : i \in {k \in 1..Len(df) : \E p \in prefixes : StartsWith(df[k].name, p)}}

\* preprocess_data creates no column of a family whose source does not resolve
FamiliesFollowSources ==
    csv # <<>> =>
        /\ determine_title_column(csv[1].df) = NoColumn =>
               FamilyColumns(preprocess_data(csv[1].df), {"seniority_", "role_"}) = {}
        /\ determine_location_column(csv[1].df) = NoColumn =>
               /\ FamilyColumns(preprocess_data(csv[1].df), {"loc_"}) = {}
               /\ \A n \in {<<"is_capital">>, <<"is_remote_location">>, <<"is_international">>} :
                      ~HasColumn(preprocess_data(csv[1].df), n)
        /\ ~(HasColumn(csv[1].df, <<"descripcion">>)
              /\ NotnaAny(Column(csv[1].df, <<"descripcion">>))) =>
               FamilyColumns(preprocess_data(csv[1].df), {"tech_"}) = {}
        /\ ~HasColumn(csv[1].df, <<"tecnologias">>) =>
               FamilyColumns(preprocess_data(csv[1].df), {"skill_"}) = {}

\* C27 (as claimed): a family whose source column is absent or all null is
\* omitted and does not make the run fail: a run of train_salary_model on a
\* table with valid salaries in which some family remains does not stop for
\* want of features.
C27_TrainsOnRemainingFamilies ==
    (/\ csv # <<>>
     /\ train_pc = "no_features"
     /\ train_salary_model(csv).outcome = "no_features") =>
        FamilyColumns(preprocess_data(csv[1].df),
                      {"seniority_", "role_", "loc_", "tech_", "skill_"}) = {}

-----------------------------------------------------------------------------
(* The categorical columns of the artifact, under SpecTrain.                *)

\* the rows train_salary_model fits on: lines 246-262 applied to the file
TrainingRows(file) ==
    WithSalary(preprocess_data(file[1].df), determine_salary_column(preprocess_data(file[1].df)))

\* the categorical columns the artifact records
RecordedCategoricals(metadata) ==
    {metadata.title_col, metadata.location_col, metadata.contract_col} \ {NoColumn}

\* C28 (as claimed): every categorical column recorded in the artifact has a
\* non-null value among the rows used for training, those left after the rows
\* without a valid salary were removed.
C28_CategoricalsLiveInTrainingRows ==
    train_pc = "saved" =>
        \A c \in RecordedCategoricals(artifact[1]) :
            NotnaAny(Column(TrainingRows(csv), c))

\* every recorded categorical column has a non-null value in the table before
\* the rows without a salary are removed
CategoricalsLiveBeforeDropna ==
    train_pc = "saved" =>
        \A c \in RecordedCategoricals(artifact[1]) :
            NotnaAny(Column(csv[1].df, c))

-----------------------------------------------------------------------------
(* Specification SpecPipeline: the raw file of the collectors, the ETL of   *)
(* etl.py that rewrites jobs_processed.csv from it, and the training and    *)
(* verification phases of train_pipeline.py, with generate_spain_data.py   *)
(* as the other writer of the processed file.  A raw file is a record      *)
(* [state, df, copies]: state is "none" (no file), "unreadable" (read_csv   *)
(* raises) or "ok"; as for the processed file, every row of df is written   *)
(* `copies` times.                                                          *)

\* calls of train_model in one behaviour
MaxRuns == 2

\* the raw files the collectors leave: a table of some rows
CollectedFiles ==
    LET values == [n \in {<<"tecnologias">>, <<"salario">>} |->
                      IF n = <<"tecnologias">>
                      THEN {Null, StrCell(<<"Python", ",", " ", "Docker">>)}
                      ELSE {Null, NumCell(2 * 30000), StrCell(<<"x">>)}]
    IN  UNION {{[state |-> "ok", df |-> Frame(cols, cells), copies |-> copies] :
                    cells \in CellChoices(cols, 1, values), copies \in {1, MaxCopies}} :
               cols \in ColumnChoices(<< <<"tecnologias">>, <<"salario">> >>, 2) \ {<<>>}}

\* what data/raw can hold: no file, a file that does not read, an empty file,
\* or a collected table
RawFiles ==
    {NoRawFile, [NoRawFile EXCEPT !.state = "unreadable"], [NoRawFile EXCEPT !.state = "ok"]}
    \cup CollectedFiles

\* extract_real_jobs: pd.DataFrame() when there is no file, when read_csv
\* raises, and when the table has no row
extract_real_jobs(raw) ==
    IF raw.state # "ok" \/ NumRows(raw.df) = 0 THEN <<>> ELSE raw.df

\* load_processed_data, lines 304-305: jobs_df.to_csv on the processed path
load_processed_data(transformed, copies) == <<[df |-> transformed, copies |-> copies]>>

\* pd.read_csv and the rest of train_salary_model: read_csv raises
\* EmptyDataError on the file of a table without columns
ReadAndTrain(file) ==
    IF file # <<>> /\ file[1].df = <<>> THEN [outcome |-> "raised", metadata |-> <<>>]
    ELSE train_salary_model(file)

InitPipeline ==
    /\ raw_file \in RawFiles
    /\ full_run = NoRun
    /\ view = NoPage
    /\ ranking = NoRanking
    /\ rng = [streams |-> <<>>, seed |-> 0, pos |-> 0]
    /\ features = [pc |-> "idle", data |-> <<>>, out |-> <<>>]
    /\ y_salary = <<>>
    /\ dump_pc = "idle"
    /\ IdleClean
    /\ IdleResolve
    /\ IdleEtl
    /\ IdlePipeline

\* run_etl_pipeline, lines 336-353: an exception of transform_job_data leaves
\* the function before load_processed_data
RunEtlPipeline ==
    /\ \E res \in {transform_job_data(extract_real_jobs(raw_file),
                                      [r \in 1..NumRows(extract_real_jobs(raw_file)) |->
                                          2 * ImputeLow])} :
          /\ etl_pc' = IF res.raised THEN "raised" ELSE "loaded"
          /\ etl_df' = res.df
          /\ csv' = IF res.raised THEN csv ELSE load_processed_data(res.df, raw_file.copies)
    /\ jobs_df' = extract_real_jobs(raw_file)
    /\ UNCHANGED <<artifact, train_pc, dash_pc, user_input, input_df, raw_file, full_run,
                   view, ranking, rng, features, y_salary, dump_pc, cleanVars, resolveVars>>

\* train_model, lines 68-81: only an exception of train_salary_model is reported
\* as an error
TrainModel ==
    /\ full_run.run < MaxRuns
    /\ full_run.phase # "trained"
    /\ \E res \in {ReadAndTrain(csv)} :
          /\ train_pc' = res.outcome
          /\ artifact' = IF res.outcome = "saved" THEN res.metadata ELSE artifact
          /\ y_salary' = IF res.outcome = "saved" THEN TrainingTarget(csv) ELSE <<>>
          /\ full_run' = [full_run EXCEPT
                             !.run = @ + 1,
                             !.phase = IF train_model(res.outcome) = "error"
                                       THEN "failed" ELSE "trained",
                             !.report = train_model(res.outcome),
                             !.written_in = IF res.outcome = "saved" THEN full_run.run + 1
                                            ELSE @]
    /\ UNCHANGED <<csv, dash_pc, user_input, input_df, raw_file, view, ranking, rng, features,
                   dump_pc, cleanVars, resolveVars, etlVars>>

\* verify_model_improvement, lines 83-144, called after a train_model that did
\* not raise: the metrics of the artifact at the path go to the history file
VerifyModelImprovement ==
    /\ full_run.phase = "trained"
    /\ full_run' = [full_run EXCEPT
                       !.phase = "verified",
                       !.history = IF artifact = <<>> THEN @
                                   ELSE Append(@, [run |-> full_run.run,
                                                   written_in |-> full_run.written_in])]
    /\ UNCHANGED <<pipelineVars, raw_file, view, ranking, rng, features, y_salary, dump_pc,
                   cleanVars, resolveVars, etlVars>>

\* run_full_pipeline, lines 146-171: the collectors leave a new raw file or
\* none; run_etl then raises NameError at etl.py:372 (cargar_ofertas_desde_csv
\* is defined nowhere), which ends the pipeline before the training phase
RunFullPipeline ==
    /\ full_run.phase # "trained"
    /\ raw_file' \in CollectedFiles \cup {raw_file}
    /\ full_run' = [full_run EXCEPT !.phase = "failed", !.report = "pipeline_error"]
    /\ UNCHANGED <<pipelineVars, view, ranking, rng, features, y_salary, dump_pc,
                   cleanVars, resolveVars, etlVars>>

SpecPipeline ==
    InitPipeline
    /\ [][\/ RunEtlPipeline \/ TrainModel \/ VerifyModelImprovement \/ RunFullPipeline
          \/ GenerateSpainData]_vars

\* C29 (as claimed): train_model reports success only when train_salary_model
\* wrote the artifact during that run, and every record of
\* performance_history.csv holds the metrics of an artifact written in the run
\* that appended it.
C29_SuccessOnlyForFreshArtifact ==
    /\ full_run.report = "success" => full_run.written_in = full_run.run
    /\ \A k \in 1..Len(full_run.history) :
           full_run.history[k].written_in = full_run.history[k].run

\* an error is reported exactly for the runs in which train_salary_model raised
ErrorOnlyOnException ==
    [][full_run'.run # full_run.run =>
           (full_run'.report = "error" <=> train_pc' = "raised")]_vars

\* C30 (as claimed): when extract_real_jobs finds no raw file, an empty one or
\* one it cannot read, run_etl_pipeline leaves an existing jobs_processed.csv
\* as it is.
C30_FailedExtractionKeepsProcessedFile ==
    [][(RunEtlPipeline /\ csv # <<>> /\ extract_real_jobs(raw_file) = <<>>) => csv' = csv]_vars

\* run_etl_pipeline keeps the processed file only when transform_job_data raises
ProcessedFileKeptOnlyOnRaise ==
    [][RunEtlPipeline => (csv' = csv <=> (etl_pc' = "raised" \/ csv = <<[df |-> etl_df', copies |-> raw_file.copies]>>))]_vars

=============================================================================
